---- MODULE Spec2Model ----
(***************************************************************************)
(* State-machine model of the video_agent backend: the intent recogniser,  *)
(* the two XiaovGraph orchestrators (the linear five-node graph and the    *)
(* router graph) and the tiered MemoryManager.                             *)
(*                                                                         *)
(* Strings are sequences of one-character tokens.  A token stands for a    *)
(* class of substrings of the real text:                                   *)
(*   "a" ordinary lower-case text      "A" ordinary upper-case text        *)
(*   "V" a video-analysis keyword      "R" a recommendation keyword        *)
(*   "W" a weekly-report keyword       "T" a topic keyword                 *)
(*   "K" a knowledge-question keyword  "I" a video id (BV + 10 alnum)      *)
(*   "|" the pipe character            "#" the hash character              *)
(* Confidences and importances are hundredths (0.7 is 70).                 *)
(***************************************************************************)
EXTENDS Integers, Sequences, FiniteSets, TLC

VARIABLES
    \* ---- IntentRecognitionAgent.Recognize, one call ----
    query,          \* the utterance handed to Recognize
    response,       \* what llm.Generate answered for that call
    recognized,     \* the (intent, err) pair Recognize returned
    rpc             \* "idle" before the call, "done" after it

intentVars == <<query, response, recognized, rpc>>

VARIABLES
    \* ---- XiaovGraph.Execute, one request through one of the two graphs ----
    variant,        \* "linear" (five-node graph) or "router" (branching graph)
    pc,             \* the graph node that runs next: "idle", a node name, "END"
    visited,        \* the nodes that have run, in order
    input,          \* the XiaovInput value flowing through the router graph
    state,          \* the GraphState value flowing through the linear graph
    output,         \* the XiaovOutput returned by the last node
    execErr,        \* the error Execute returns
    storeLog,       \* the memoryManager.Store calls of this request, in order
    invokeLog,      \* the mcpManager.ExecuteTool calls of this request, in order
    branchDecisions,\* how many graph branch conditions were evaluated
    ext             \* what the external collaborators answered in this request

graphVars == <<variant, pc, visited, input, state, output, execErr, storeLog,
               invokeLog, branchDecisions, ext>>

VARIABLES
    \* ---- MemoryManager and its tiers ----
    shortTerm,      \* ShortTermMemory.store: session id -> list of memories
    working,        \* WorkingMemory.store: session id -> set of <<key, value>>
    vectorStore,    \* ids inserted into the long-term vector store
    metadataStore,  \* memories saved in the long-term metadata store
    nextID,         \* the next uuid
    history,        \* the MemoryManager.Store calls so far: memory and result
    maxItems,       \* ShortTermMemory.maxItems
    maxSize,        \* WorkingMemory.maxSize
    now,            \* the wall clock, in units of which the TTL is a multiple
    setLog,         \* per session, the memories handed to ShortTermMemory.Set
    keyLog,         \* per session, the keys handed to WorkingMemory.Set
    lastOp          \* the last tier or manager operation and what it saw

memoryVars == <<shortTerm, working, vectorStore, metadataStore, nextID, history,
                maxItems, maxSize, now, setLog, keyLog, lastOp>>

VARIABLES
    \* ---- ContextBuilder ----
    maxTokens,      \* ContextBuilder.maxTokens
    currentTokens,  \* ContextBuilder.currentTokens
    messages,       \* ContextBuilder.messages
    lastAdd         \* the last AddMessage call: what it saw and returned

contextVars == <<maxTokens, currentTokens, messages, lastAdd>>

VARIABLES
    \* ---- two requests of one session running ShortTermMemory concurrently ----
    gpc,            \* per goroutine: the statement it is at
    gop,            \* per goroutine: the call it runs and its argument
    glocal,         \* per goroutine: its local slice
    gstore,         \* the session's entry of ShortTermMemory.store
    gdone,          \* the memories whose Set has returned
    gfault          \* TRUE once the runtime has detected a concurrent map access

raceVars == <<gpc, gop, glocal, gstore, gdone, gfault>>

VARIABLES
    \* ---- the loop of toolExecutionNode under the request's context ----
    tpc,            \* "idle", "loop", "calling", "done"
    tclock,         \* time since the request context was created
    tselected,      \* state.SelectedTools
    tresults,       \* toolResults
    tcalls          \* per invocation made: start time, end time, how it ended

loopVars == <<tpc, tclock, tselected, tresults, tcalls>>

VARIABLES
    \* ---- one request through the stages, on a clock ----
    qpc,            \* the stage the request is at, "idle" before, "done" after
    qflight,        \* TRUE while the stage's external call is in flight
    qclock,         \* time since the request context was created
    qstart,         \* when the call in flight began
    qhangs,         \* the stages whose dependency never answers
    qlog,           \* how each stage's call ended
    qparent         \* the caller's context: "alive" or "cancelled"

requestVars == <<qpc, qflight, qclock, qstart, qhangs, qlog, qparent>>

VARIABLES
    \* ---- one call of a function of the pipeline ----
    callIn,         \* the argument
    callOut,        \* what the call returned
    callPc          \* "ready" before the call, "returned" after

callVars == <<callIn, callOut, callPc>>

VARIABLES
    \* ---- the tool catalog: the server, the client and the manager ----
    remoteTools,    \* the tool list the remote server has now
    clientCache,    \* SSEClient.tools
    managerCache,   \* Manager.tools and Manager.toolsLoaded
    catalogOp       \* the last catalog call: its name and what it returned

catalogVars == <<remoteTools, clientCache, managerCache, catalogOp>>

VARIABLES
    \* ---- what memoryManager.Store answers to the pipeline ----
    storeOutcomes   \* the result of the i-th Store call of the request

persistVars == <<storeOutcomes>>

VARIABLES
    \* ---- the tool Registry and the goroutines registering tools ----
    regTools,       \* Registry.tools: name -> the call whose tool it holds, 0 for none
    regMu,          \* Registry.mu: the call that holds the lock, 0 when free
    regPc,          \* per Register call: the statement it is at
    regArg,         \* per Register call: the name of its tool
    regRet          \* per Register call: the error it returned

registryVars == <<regTools, regMu, regPc, regArg, regRet>>

finalVars == <<persistVars, registryVars>>

laterVars == <<requestVars, callVars, catalogVars, finalVars>>

restVars == <<contextVars, raceVars, loopVars, laterVars>>

vars == <<intentVars, graphVars, memoryVars, restVars>>

-----------------------------------------------------------------------------
(* Bounds *)

MaxQueryLen == 2
MaxTools == 2
MaxLinearMsgLen == 1
MaxRouterMsgLen == 3
MaxStores == 3
MaxItems == 1
MaxSize == 1
MaxSets == 4
TTL == 2
MaxFill == 11
MaxCompress == 1
MaxManagerStores == 1
MaxAdds == 6
MaxCalls == 3
MaxSelected == 2
MaxHung == 1
MaxResults == 2
MaxTopK == 2
MaxStored == 2
MaxRegisters == 3

-----------------------------------------------------------------------------
(* Small helpers on token strings *)

Min(a, b) == IF a < b THEN a ELSE b

RECURSIVE SeqsUpTo(_, _)
SeqsUpTo(S, n) ==
    IF n = 0 THEN {<<>>}
    ELSE LET shorter == SeqsUpTo(S, n - 1)
         IN  shorter \cup {Append(s, c) : s \in {t \in shorter : Len(t) = n - 1}, c \in S}

Contains(s, kws) == \E i \in 1..Len(s) : s[i] \in kws

ToLower(s) == [i \in 1..Len(s) |-> IF s[i] = "A" THEN "a" ELSE s[i]]

-----------------------------------------------------------------------------
(* internal/agent: intent types and the intent recogniser *)

IntentVideoAnalysis   == "video_analysis"
IntentRecommendation  == "recommendation"
IntentKnowledgeQA     == "knowledge_qa"
IntentWeeklyReport    == "weekly_report"
IntentTopicAnalysis   == "topic_analysis"
IntentKnowledgeBase   == "knowledge_base"
IntentContentCreation == "content_creation"
IntentGeneralChat     == "general_chat"

\* The intent labels a model answer may carry: the taxonomy entries the
\* orchestrators tell apart, one they do not ("user_profile") and one
\* outside the taxonomy ("mystery").
IntentTypes ==
    {IntentVideoAnalysis, IntentRecommendation, IntentKnowledgeQA,
     IntentWeeklyReport, IntentTopicAnalysis, IntentKnowledgeBase,
     IntentContentCreation, IntentGeneralChat, "user_profile", "mystery"}

NoError == "nil"

\* NewIntentRecognitionAgent: confidence: 0.7
confidence == 70

MkIntent(type, conf, raw) == [Type |-> type, Confidence |-> conf, RawQuery |-> raw]

\* ruleBasedClassify: the keyword lists are tried in this order, the first
\* list with a hit decides.
ruleBasedClassify(q) ==
    LET lq == ToLower(q)
    IN  IF Contains(lq, {"V"}) THEN MkIntent(IntentVideoAnalysis, 80, lq)
        ELSE IF Contains(lq, {"R"}) THEN MkIntent(IntentRecommendation, 80, lq)
        ELSE IF Contains(lq, {"W"}) THEN MkIntent(IntentWeeklyReport, 80, lq)
        ELSE IF Contains(lq, {"T"}) THEN MkIntent(IntentTopicAnalysis, 80, lq)
        ELSE IF Contains(lq, {"K"}) THEN MkIntent(IntentKnowledgeQA, 70, lq)
        ELSE MkIntent(IntentGeneralChat, 50, lq)

\* What llm.Generate can answer to the classification prompt: an error
\* (unreachable, or the 10 s stage timeout), a text json.Unmarshal rejects,
\* or a JSON object carrying a type and a confidence.
LLMConfidences == {0, 49, 50, 51, 69, 70, 71, 79, 80, 81, 100}

IntentResponses ==
    {[kind |-> "error", type |-> "", conf |-> 0],
     [kind |-> "unparsable", type |-> "", conf |-> 0]}
    \cup {[kind |-> "json", type |-> t, conf |-> c] : t \in IntentTypes, c \in LLMConfidences}

\* Recognize with the model's failure handed to the caller.
RecognizePropagatesError(q, resp) ==
    IF resp.kind \in {"error", "unparsable"}
    THEN [intent |-> MkIntent(IntentGeneralChat, 0, q), err |-> "llm failed"]
    ELSE LET intent == MkIntent(resp.type, resp.conf, q)
             ruleIntent == ruleBasedClassify(q)
         IN  IF intent.Confidence < confidence /\ ruleIntent.Confidence > intent.Confidence
             THEN [intent |-> ruleIntent, err |-> NoError]
             ELSE [intent |-> intent, err |-> NoError]

\* Recognize with the rule-based result also winning a tie.
RecognizePrefersRuleOnTie(q, resp) ==
    IF resp.kind \in {"error", "unparsable"}
    THEN [intent |-> ruleBasedClassify(q), err |-> NoError]
    ELSE LET intent == MkIntent(resp.type, resp.conf, q)
             ruleIntent == ruleBasedClassify(q)
         IN  IF intent.Confidence < confidence /\ ruleIntent.Confidence >= intent.Confidence
             THEN [intent |-> ruleIntent, err |-> NoError]
             ELSE [intent |-> intent, err |-> NoError]

Recognize(q, resp) ==
    IF resp.kind = "error"
    THEN [intent |-> ruleBasedClassify(q), err |-> NoError]
    ELSE IF resp.kind = "unparsable"
    THEN [intent |-> ruleBasedClassify(q), err |-> NoError]
    ELSE LET intent == MkIntent(resp.type, resp.conf, q)
             ruleIntent == ruleBasedClassify(q)
         IN  IF intent.Confidence < confidence /\ ruleIntent.Confidence > intent.Confidence
             THEN [intent |-> ruleIntent, err |-> NoError]
             ELSE [intent |-> intent, err |-> NoError]

-----------------------------------------------------------------------------
(* internal/orchestrator: values shared by the two XiaovGraph variants *)

\* A reply text.  kind names the template or source of the text, text is
\* the model's content ("" is the empty string), raw and fields are the
\* data a template prints, msg is the user message a template quotes.
MkReply(kind, text, raw, fields, msg) ==
    [kind |-> kind, text |-> text, raw |-> raw, fields |-> fields, msg |-> msg]

LLMContent(text) == MkReply("llm", text, <<>>, <<>>, <<>>)

\* The Go zero value of a string field such as GraphState.AnalysisResult.
EmptyString == LLMContent("")

\* The contents a language-model answer can have: empty, or some text.
LLMTexts == {"", "content"}

\* Tool parameters are sets of <<key, value>> pairs.  "canshuzhi" stands
\* for the literal key the repair step looks for (the prompt template's
\* placeholder value).
ParamVideoID   == "video_id"
ParamValueHole == "canshuzhi"

\* The remote server's tool list.
Catalog == {"get_video", "get_tasks"}

\* Names a model answer may use: catalogued ones and one that is absent.
ToolNames == {"get_video", "ghost"}

RawParams == {{<<ParamVideoID, "I">>}, {<<ParamValueHole, "I">>}}

RawSelections == {[Name |-> n, Params |-> p] : n \in ToolNames, p \in RawParams}

\* Payloads a tool invocation can return: the wrapped envelope whose text
\* is the base64 of {data:{video:{...}}}, and a bare object with the
\* counts at top level.
Payloads ==
    {[enc |-> "b64",   shape |-> "data.video", view_count |-> 12345],
     [enc |-> "plain", shape |-> "flat",       view_count |-> 7]}

\* An invocation answers with a payload or fails.
ToolAnswers == {[ok |-> TRUE, payload |-> p] : p \in Payloads}
               \cup {[ok |-> FALSE, payload |-> CHOOSE p \in Payloads : TRUE]}

NoMetadata ==
    [tool_selection_skipped |-> FALSE, tool_selection_error |-> "",
     selected_tools_count |-> -1, tool_execution_skipped |-> FALSE,
     tool_execution_count |-> -1, analysis_skipped |-> FALSE]

NoState ==
    [SessionID |-> <<>>, OriginalMessage |-> <<>>, Intent |-> "",
     IntentConfidence |-> 0, VideoID |-> <<>>, SelectedTools |-> <<>>,
     ToolResults |-> <<>>, AnalysisResult |-> EmptyString,
     Metadata |-> NoMetadata]

NoInput == [SessionID |-> <<>>, Message |-> <<>>]

NoOutput == [SessionID |-> <<>>, Reply |-> EmptyString, Intent |-> <<>>,
             Agent |-> "", Metadata |-> NoMetadata]

NoExt == [intent |-> "none", catalog |-> "none", selection |-> "none",
          tools |-> <<>>, synthesis |-> "none", chat |-> "none", agent |-> "none"]

\* uuid.New().String()
NewUUID == <<"u">>

MkMemory(sessionID, content, type) ==
    [SessionID |-> sessionID, Content |-> content, Type |-> type]

UserContent(msg) == MkReply("user", "", <<>>, <<>>, msg)

-----------------------------------------------------------------------------
(* The linear graph: intent -> tool_selection -> tool_execution ->         *)
(* analysis -> summary                                                     *)

\* extractVideoID: the first BV id of the message, upper-cased, else "".
extractVideoID(msg) == IF Contains(msg, {"I"}) THEN <<"I">> ELSE <<>>

\* parseToolSelectionResponse: the repair loop over the parsed selections.
RepairParams(params) ==
    IF \E kv \in params : kv[1] = ParamValueHole
    THEN LET val == (CHOOSE kv \in params : kv[1] = ParamValueHole)[2]
         IN  {kv \in params : kv[1] \notin {ParamValueHole, ParamVideoID}}
             \cup {<<ParamVideoID, val>>}
    ELSE params

\* parseToolSelectionResponse.  The content either holds no {...} span,
\* holds one json.Unmarshal rejects, or holds a tools list.
parseToolSelectionResponse(content) ==
    IF content.kind = "nojson" THEN [tools |-> <<>>, err |-> "no json content"]
    ELSE IF content.kind = "badjson" THEN [tools |-> <<>>, err |-> "unmarshal failed"]
    ELSE [tools |-> [i \in 1..Len(content.tools) |->
                        [Name |-> content.tools[i].Name,
                         Params |-> RepairParams(content.tools[i].Params)]],
          err |-> NoError]

\* selectToolsWithLLM with a failed model call reported as "no tools".
selectToolsWithLLMSwallowsError(answer) ==
    IF answer.kind = "error"
    THEN [tools |-> <<>>, err |-> NoError]
    ELSE parseToolSelectionResponse(answer)

\* selectToolsWithLLM: the model call under its 30 s timeout, then the parse.
selectToolsWithLLM(answer) ==
    IF answer.kind = "error"
    THEN [tools |-> <<>>, err |-> "llm tool selection failed"]
    ELSE parseToolSelectionResponse(answer)

\* mcpManager.GetTools as seen by the selection stage.
CatalogAnswers == {"ok", "error"}

\* toolSelectionNode
toolSelectionNodeResult(st, catalogAnswer, answer) ==
    IF st.Intent = IntentGeneralChat
    THEN [st EXCEPT !.Metadata.tool_selection_skipped = TRUE]
    ELSE IF catalogAnswer = "error"
    THEN [st EXCEPT !.Metadata.tool_selection_error = "get tools failed"]
    ELSE LET sel == selectToolsWithLLM(answer)
             st1 == IF sel.err # NoError
                    THEN [st EXCEPT !.Metadata.tool_selection_error = sel.err]
                    ELSE [st EXCEPT !.SelectedTools = sel.tools]
         IN  [st1 EXCEPT !.Metadata.selected_tools_count = Len(st1.SelectedTools)]

\* Manager.ExecuteTool: client.GetTool, then InvokableRun.
ExecuteTool(name, answer) ==
    IF name \notin Catalog THEN [result |-> <<>>, err |-> "tool not found"]
    ELSE IF ~answer.ok THEN [result |-> <<>>, err |-> "remote tool failed"]
    ELSE [result |-> <<answer.payload>>, err |-> NoError]

\* toolExecutionNode: the body of the loop for one selection.
ToolResultOf(sel, answer) ==
    LET r == ExecuteTool(sel.Name, answer)
    IN  [ToolName |-> sel.Name, Params |-> sel.Params, Result |-> r.result,
         Error |-> IF r.err # NoError THEN r.err ELSE ""]

\* The loop leaving at the first failed invocation.
RunToolsStopAtFailure(selections, answers) ==
    LET failed == {i \in 1..Len(selections) : ToolResultOf(selections[i], answers[i]).Error # ""}
        last   == IF failed = {} THEN Len(selections)
                  ELSE CHOOSE i \in failed : \A o \in failed : i <= o
    IN  [i \in 1..last |-> ToolResultOf(selections[i], answers[i])]

\* toolExecutionNode: the loop, answers[i] being what invocation i returns.
RunTools(selections, answers) ==
    [i \in 1..Len(selections) |-> ToolResultOf(selections[i], answers[i])]

toolExecutionNodeResult(st, answers) ==
    IF st.Intent = IntentGeneralChat \/ Len(st.SelectedTools) = 0
    THEN [st EXCEPT !.Metadata.tool_execution_skipped = TRUE]
    ELSE LET toolResults == RunTools(st.SelectedTools, answers)
         IN  [st EXCEPT !.ToolResults = toolResults,
                        !.Metadata.tool_execution_count = Len(toolResults)]

\* The ExecuteTool calls toolExecutionNode makes.
toolExecutionNodeCalls(st) ==
    IF st.Intent = IntentGeneralChat \/ Len(st.SelectedTools) = 0
    THEN <<>>
    ELSE [i \in 1..Len(st.SelectedTools) |-> st.SelectedTools[i].Name]

\* extractVideoDataFromToolResults: results are folded in order, a later
\* result overwrites the fields an earlier one set.  Only the data.video
\* and the video nestings are read.
NoVideoData == [view_count |-> 0]

RECURSIVE extractVideoDataFromToolResults(_)
extractVideoDataFromToolResults(toolResults) ==
    IF toolResults = <<>> THEN NoVideoData
    ELSE LET n    == Len(toolResults)
             prev == extractVideoDataFromToolResults(SubSeq(toolResults, 1, n - 1))
             tr   == toolResults[n]
         IN  IF tr.Result = <<>> THEN prev
             ELSE IF tr.Result[1].shape \in {"data.video", "video"}
                  THEN [view_count |-> tr.Result[1].view_count]
                  ELSE prev

\* buildFallbackAnalysis: the template prints json.MarshalIndent(state.ToolResults).
buildFallbackAnalysis(st) == MkReply("fallback_analysis", "", st.ToolResults, <<>>, <<>>)

\* buildFallbackResponse
buildFallbackResponse(st) == MkReply("fallback_response", st.Intent, <<>>, <<>>, <<>>)

\* performVideoAnalysis (all five perform* functions delegate to it): the
\* extracted fields go into the prompt, the reply is the model's content.
performVideoAnalysis(st, answer) ==
    IF answer.kind = "error"
    THEN [content |-> EmptyString, err |-> "video analysis failed"]
    ELSE [content |-> LLMContent(answer.text), err |-> NoError]

\* analysisNode without the fallback on a failed analysis.
analysisNodeResultNoFallback(st, answer) ==
    IF st.Intent = IntentGeneralChat
    THEN [st EXCEPT !.Metadata.analysis_skipped = TRUE]
    ELSE [st EXCEPT !.AnalysisResult = performVideoAnalysis(st, answer).content]

\* analysisNode
analysisNodeResult(st, answer) ==
    IF st.Intent = IntentGeneralChat
    THEN [st EXCEPT !.Metadata.analysis_skipped = TRUE]
    ELSE LET r == performVideoAnalysis(st, answer)
         IN  [st EXCEPT !.AnalysisResult =
                  IF r.err # NoError THEN buildFallbackAnalysis(st) ELSE r.content]

\* generateGeneralChatResponse
ChatApology == MkReply("chat_apology", "", <<>>, <<>>, <<>>)

\* generateGeneralChatResponse handing the model's failure to its caller.
generateGeneralChatResponseNoApology(st, answer) ==
    IF answer.kind = "error"
    THEN [content |-> EmptyString, err |-> "chat failed"]
    ELSE [content |-> LLMContent(answer.text), err |-> NoError]

generateGeneralChatResponse(st, answer) ==
    IF answer.kind = "error"
    THEN [content |-> ChatApology, err |-> NoError]
    ELSE [content |-> LLMContent(answer.text), err |-> NoError]

\* summaryNode: the reply and the agent name.
summaryReply(st, answer) ==
    IF st.Intent = IntentGeneralChat
    THEN generateGeneralChatResponse(st, answer).content
    ELSE IF st.AnalysisResult # EmptyString
         THEN st.AnalysisResult
         ELSE buildFallbackResponse(st)

\* What llm.Generate can answer to a free-text prompt.
TextAnswers == {[kind |-> "error", text |-> ""]}
               \cup {[kind |-> "ok", text |-> t] : t \in LLMTexts}

\* What llm.Generate can answer to the tool-selection prompt.
SelectionAnswers ==
    {[kind |-> k, tools |-> <<>>] : k \in {"error", "nojson", "badjson"}}
    \cup {[kind |-> "json", tools |-> t] : t \in SeqsUpTo(RawSelections, MaxTools)}

\* The classification answers the graphs are run against.
GraphIntentResponses ==
    {[kind |-> "error", type |-> "", conf |-> 0],
     [kind |-> "unparsable", type |-> "", conf |-> 0]}
    \cup {[kind |-> "json", type |-> t, conf |-> 90] : t \in IntentTypes}
    \cup {[kind |-> "json", type |-> IntentWeeklyReport, conf |-> 60]}

TypeTokens(type) == IF type = "" THEN <<>> ELSE <<type>>

LinearSessionIDs == {<<>>, <<"s">>}
LinearMsgChars == {"a", "V", "I"}

\* Execute of the linear variant: the session id is generated when absent,
\* then the graph is invoked.
ExecuteLinear ==
    /\ pc = "idle"
    /\ \E sid \in LinearSessionIDs, msg \in SeqsUpTo(LinearMsgChars, MaxLinearMsgLen) :
          input' = [SessionID |-> IF sid = <<>> THEN NewUUID ELSE sid, Message |-> msg]
    /\ variant' = "linear"
    /\ pc' = "intent"
    /\ UNCHANGED <<visited, state, output, execErr, storeLog, invokeLog,
                   branchDecisions, ext, intentVars, memoryVars, restVars>>

\* The intent both graphs continue with: Recognize's, or general chat when
\* Recognize reports an error.
IntentOrGeneral(rec, msg) ==
    IF rec.err # NoError THEN MkIntent(IntentGeneralChat, 100, msg) ELSE rec.intent

intentRecognitionNode ==
    /\ pc = "intent" /\ variant = "linear"
    /\ \E r \in GraphIntentResponses :
          LET intent == IntentOrGeneral(Recognize(input.Message, r), input.Message)
          IN  /\ storeLog' = Append(storeLog,
                     MkMemory(input.SessionID, UserContent(input.Message), "user"))
              /\ state' = [NoState EXCEPT !.SessionID = input.SessionID,
                                          !.OriginalMessage = input.Message,
                                          !.Intent = intent.Type,
                                          !.IntentConfidence = intent.Confidence,
                                          !.VideoID = extractVideoID(input.Message)]
              /\ ext' = [ext EXCEPT !.intent = r.kind]
    /\ pc' = "tool_selection"
    /\ visited' = Append(visited, "intent")
    /\ UNCHANGED <<variant, input, output, execErr, invokeLog, branchDecisions, intentVars, memoryVars, restVars>>

toolSelectionNode ==
    /\ pc = "tool_selection"
    /\ \E c \in CatalogAnswers, a \in SelectionAnswers :
          \* the catalog and the model are only asked on the paths that reach them
          /\ (state.Intent = IntentGeneralChat => c = "ok" /\ a.kind = "error")
          /\ (c = "error" => a.kind = "error")
          /\ state' = toolSelectionNodeResult(state, c, a)
          /\ ext' = [ext EXCEPT !.catalog = IF state.Intent = IntentGeneralChat THEN "none" ELSE c,
                                !.selection = IF state.Intent = IntentGeneralChat \/ c = "error"
                                              THEN "none" ELSE a.kind]
    /\ pc' = "tool_execution"
    /\ visited' = Append(visited, "tool_selection")
    /\ UNCHANGED <<variant, input, output, execErr, storeLog, invokeLog,
                   branchDecisions, intentVars, memoryVars, restVars>>

toolExecutionNode ==
    /\ pc = "tool_execution"
    /\ \E answers \in [1..Len(state.SelectedTools) -> ToolAnswers] :
          \* a tool the client does not know is never run remotely
          /\ \A i \in 1..Len(state.SelectedTools) :
                state.SelectedTools[i].Name \notin Catalog => ~answers[i].ok
          /\ state' = toolExecutionNodeResult(state, answers)
          /\ invokeLog' = invokeLog \o toolExecutionNodeCalls(state)
          /\ ext' = [ext EXCEPT !.tools = [i \in 1..Len(answers) |-> answers[i].ok]]
    /\ pc' = "analysis"
    /\ visited' = Append(visited, "tool_execution")
    /\ UNCHANGED <<variant, input, output, execErr, storeLog, branchDecisions,
                   intentVars, memoryVars, restVars>>

analysisNode ==
    /\ pc = "analysis"
    /\ \E a \in TextAnswers :
          /\ (state.Intent = IntentGeneralChat => a.kind = "error")
          /\ state' = analysisNodeResult(state, a)
          /\ ext' = [ext EXCEPT !.synthesis =
                        IF state.Intent = IntentGeneralChat THEN "none" ELSE a.kind]
    /\ pc' = "summary"
    /\ visited' = Append(visited, "analysis")
    /\ UNCHANGED <<variant, input, output, execErr, storeLog, invokeLog,
                   branchDecisions, intentVars, memoryVars, restVars>>

\* memoryManager.Store as the pipeline sees it.
StoreOutcomes == {"ok", "error"}

\* Every Store call of the request succeeds.
PersistIdle == storeOutcomes = [i \in 1..2 |-> "ok"]

\* The Store calls of the request succeed or fail, each on its own.
PersistAny == storeOutcomes \in [1..2 -> StoreOutcomes]

\* What the i-th Store call of the request answers.
StoreOutcome(i) == IF i \in DOMAIN storeOutcomes THEN storeOutcomes[i] ELSE "ok"

\* A stage that returns the error of its Store call.
StoreErrorReturned(outcome) == IF outcome = "error" THEN "store failed" ELSE NoError

\* xg.memoryManager.Store(ctx, memory) as a statement: the stages drop what
\* it returns, so no error of it is kept.
StoreErrorKept(outcome) == NoError

\* summaryNode, and Execute returning its output.
summaryNode ==
    /\ pc = "summary"
    /\ \E a \in TextAnswers :
          /\ (state.Intent # IntentGeneralChat => a.kind = "error")
          /\ LET finalReply == summaryReply(state, a)
                 agentType  == IF state.Intent = IntentGeneralChat
                               THEN "general_chat" ELSE state.Intent
             IN  /\ storeLog' = Append(storeLog,
                        MkMemory(state.SessionID, finalReply, "assistant"))
                 /\ output' = [SessionID |-> state.SessionID, Reply |-> finalReply,
                               Intent |-> TypeTokens(state.Intent), Agent |-> agentType,
                               Metadata |-> state.Metadata]
          /\ ext' = [ext EXCEPT !.chat =
                        IF state.Intent = IntentGeneralChat THEN a.kind ELSE "none"]
    /\ execErr' = StoreErrorKept(StoreOutcome(Len(storeLog) + 1))
    /\ pc' = "END"
    /\ visited' = Append(visited, "summary")
    /\ UNCHANGED <<variant, input, state, invokeLog, branchDecisions, intentVars, memoryVars, restVars>>

-----------------------------------------------------------------------------
(* The router graph: intent -> router -> knowledge | creation | video |    *)
(* general                                                                 *)

\* json.Marshal(intent): the tokens "{" and "}" delimit the object, "q" is
\* a double quote; the type and the raw query are the fields the router
\* reads back or that carry user text.
intentJSON(intent) == <<"{">> \o TypeTokens(intent.Type) \o <<"q">> \o intent.RawQuery \o <<"q", "}">>

Separator == <<"|", "|", "|">>

\* splitMessage of xiaov_graph.go: the first "|||" at a 0-based index
\* i < len-2; an index of 0 counts as not found.
SepPositions(message) ==
    {p \in 1..(Len(message) - 2) :
        message[p] = "|" /\ message[p + 1] = "|" /\ message[p + 2] = "|"}

splitMessage(message) ==
    LET found == SepPositions(message)
        idx   == IF found = {} THEN 0
                 ELSE (CHOOSE p \in found : \A o \in found : p <= o) - 1
    IN  IF idx = 0 THEN <<message>>
        ELSE <<SubSeq(message, 1, idx), SubSeq(message, idx + 4, Len(message))>>

\* json.Unmarshal into a zero Intent: the type of a well-formed object,
\* the zero value "" when the text is rejected.
JSONValid(t) ==
    /\ Len(t) >= 4
    /\ t[1] = "{" /\ t[Len(t)] = "}" /\ t[Len(t) - 1] = "q"
    /\ \/ /\ t[2] = "q"
          /\ \A i \in 3..(Len(t) - 2) : t[i] \notin {"q", "{", "}"}
       \/ /\ Len(t) >= 5 /\ t[2] \notin {"q", "{", "}"} /\ t[3] = "q"
          /\ \A i \in 4..(Len(t) - 2) : t[i] \notin {"q", "{", "}"}

UnmarshalIntentType(t) ==
    IF JSONValid(t) THEN (IF t[2] = "q" THEN "" ELSE t[2]) ELSE ""

\* extractIntentFromSessionID of xiaov_graph.go
extractIntentFromSessionID(sessionID) ==
    LET sid    == splitMessage(sessionID)[1]
        hashes == {i \in 1..Len(sid) : sid[i] = "#"}
    IN  IF hashes = {} THEN <<IntentGeneralChat>>
        ELSE LET last == CHOOSE i \in hashes : \A o \in hashes : i >= o
             IN  SubSeq(sid, last + 1, Len(sid))

\* The branch condition without its default case.
routerBranchNoDefault(in) ==
    LET intentType == extractIntentFromSessionID(in.SessionID)
    IN  IF intentType \in {<<IntentKnowledgeBase>>, <<IntentKnowledgeQA>>} THEN "knowledge"
        ELSE IF intentType \in {<<IntentContentCreation>>, <<IntentTopicAnalysis>>} THEN "creation"
        ELSE IF intentType = <<IntentVideoAnalysis>> THEN "video"
        ELSE ""

\* The branch condition attached to the router node.
routerBranch(in) ==
    LET intentType == extractIntentFromSessionID(in.SessionID)
    IN  IF intentType \in {<<IntentKnowledgeBase>>, <<IntentKnowledgeQA>>} THEN "knowledge"
        ELSE IF intentType \in {<<IntentContentCreation>>, <<IntentTopicAnalysis>>} THEN "creation"
        ELSE IF intentType = <<IntentVideoAnalysis>> THEN "video"
        ELSE "general"

\* extractVideoID of xiaov_graph.go: the first run of ten alphanumerics,
\* which for a BV id is its first ten characters ("i").
extractVideoIDRouter(msg) == IF Contains(msg, {"I"}) THEN <<"i">> ELSE <<>>

\* buildOutput of xiaov_graph.go
buildOutput(in, reply, agentType) ==
    [SessionID |-> in.SessionID, Reply |-> reply,
     Intent |-> extractIntentFromSessionID(in.SessionID), Agent |-> agentType,
     Metadata |-> NoMetadata]

\* handleKnowledgeBase
handleKnowledgeBase(in) == MkReply("knowledge_stub", "", <<>>, <<>>, in.Message)

\* handleVideoAnalysisWithMCP: answer is what the V3 agent's Analyze returns.
handleVideoAnalysisWithMCP(in, answer) ==
    IF extractVideoIDRouter(in.Message) = <<>>
    THEN MkReply("need_video_id", "", <<>>, <<>>, <<>>)
    ELSE IF answer.kind = "error"
    THEN MkReply("video_analysis_failed", "", <<>>, <<>>, <<>>)
    ELSE LLMContent(answer.text)

\* handleGeneralChat: the reply, and whether the assistant memory is stored.
RouterChatApology == MkReply("router_chat_apology", "", <<>>, <<>>, <<>>)

handleGeneralChat(in, answer) ==
    IF answer.kind = "error"
    THEN [reply |-> RouterChatApology, stores |-> <<>>]
    ELSE [reply |-> LLMContent(answer.text),
          stores |-> <<MkMemory(in.SessionID, LLMContent(answer.text), "assistant")>>]

RouterSessionIDs == {<<>>, <<"s">>}
RouterMsgChars == {"a", "V", "K", "I", "|"}

ExecuteRouter ==
    /\ pc = "idle"
    /\ \E sid \in RouterSessionIDs, msg \in SeqsUpTo(RouterMsgChars, MaxRouterMsgLen) :
          input' = [SessionID |-> IF sid = <<>> THEN NewUUID ELSE sid, Message |-> msg]
    /\ variant' = "router"
    /\ pc' = "intent"
    /\ UNCHANGED <<visited, state, output, execErr, storeLog, invokeLog,
                   branchDecisions, ext, intentVars, memoryVars, restVars>>

intentNode ==
    /\ pc = "intent" /\ variant = "router"
    /\ \E r \in GraphIntentResponses :
          LET intent == IntentOrGeneral(Recognize(input.Message, r), input.Message)
          IN  /\ storeLog' = Append(storeLog,
                     MkMemory(input.SessionID, UserContent(input.Message), "user"))
              /\ input' = [input EXCEPT !.Message =
                              intentJSON(intent) \o Separator \o input.Message]
              /\ ext' = [ext EXCEPT !.intent = r.kind]
    /\ pc' = "router"
    /\ visited' = Append(visited, "intent")
    /\ UNCHANGED <<variant, state, output, execErr, invokeLog, branchDecisions, intentVars, memoryVars, restVars>>

\* routerNode, then the branch condition on the node's output.
routerNodeResult(in) ==
    LET parts  == splitMessage(in.Message)
        type   == IF Len(parts) = 2 THEN UnmarshalIntentType(parts[1]) ELSE ""
        newMsg == IF Len(parts) = 2 THEN parts[2] ELSE in.Message
    IN  [SessionID |-> in.SessionID \o <<"#">> \o TypeTokens(type), Message |-> newMsg]

routerNode ==
    /\ pc = "router"
    /\ input' = routerNodeResult(input)
    /\ branchDecisions' = branchDecisions + 1
    /\ pc' = routerBranch(input')
    /\ visited' = Append(visited, "router")
    /\ UNCHANGED <<variant, state, output, execErr, storeLog, invokeLog, ext, intentVars, memoryVars, restVars>>

knowledgeNode ==
    /\ pc = "knowledge"
    /\ output' = buildOutput(input, handleKnowledgeBase(input), "knowledge_base")
    /\ execErr' = NoError
    /\ pc' = "END"
    /\ visited' = Append(visited, "knowledge")
    /\ UNCHANGED <<variant, input, state, storeLog, invokeLog, branchDecisions,
                   ext, intentVars, memoryVars, restVars>>

\* The V3 agent is only called when the message carries a video id.
AgentAnswerFits(in, a) == extractVideoIDRouter(in.Message) = <<>> => a.kind = "error"

AgentOutcome(in, a) == IF extractVideoIDRouter(in.Message) = <<>> THEN "none" ELSE a.kind

creationNode ==
    /\ pc = "creation"
    /\ \E a \in TextAnswers :
          /\ AgentAnswerFits(input, a)
          /\ output' = buildOutput(input, handleVideoAnalysisWithMCP(input, a), "content_creation")
          /\ ext' = [ext EXCEPT !.agent = AgentOutcome(input, a)]
    /\ execErr' = NoError
    /\ pc' = "END"
    /\ visited' = Append(visited, "creation")
    /\ UNCHANGED <<variant, input, state, storeLog, invokeLog, branchDecisions, intentVars, memoryVars, restVars>>

videoNode ==
    /\ pc = "video"
    /\ \E a \in TextAnswers :
          /\ AgentAnswerFits(input, a)
          /\ output' = buildOutput(input, handleVideoAnalysisWithMCP(input, a), "video_analysis")
          /\ ext' = [ext EXCEPT !.agent = AgentOutcome(input, a)]
    /\ execErr' = NoError
    /\ pc' = "END"
    /\ visited' = Append(visited, "video")
    /\ UNCHANGED <<variant, input, state, storeLog, invokeLog, branchDecisions, intentVars, memoryVars, restVars>>

generalNode ==
    /\ pc = "general"
    /\ \E a \in TextAnswers :
          LET r == handleGeneralChat(input, a)
          IN  /\ storeLog' = storeLog \o r.stores
              /\ output' = buildOutput(input, r.reply, "general_chat")
              /\ ext' = [ext EXCEPT !.chat = a.kind]
    /\ execErr' = NoError
    /\ pc' = "END"
    /\ visited' = Append(visited, "general")
    /\ UNCHANGED <<variant, input, state, invokeLog, branchDecisions, intentVars, memoryVars, restVars>>

-----------------------------------------------------------------------------
(* Specification of one request through either graph *)

GraphIdle ==
    /\ variant = "none"
    /\ pc = "idle"
    /\ visited = <<>>
    /\ input = NoInput
    /\ state = NoState
    /\ output = NoOutput
    /\ execErr = "pending"
    /\ storeLog = <<>>
    /\ invokeLog = <<>>
    /\ branchDecisions = 0
    /\ ext = NoExt

LinearNext ==
    \/ ExecuteLinear
    \/ intentRecognitionNode
    \/ toolSelectionNode
    \/ toolExecutionNode
    \/ analysisNode
    \/ summaryNode

RouterNext ==
    \/ ExecuteRouter
    \/ intentNode
    \/ routerNode
    \/ knowledgeNode
    \/ creationNode
    \/ videoNode
    \/ generalNode

GraphNext == LinearNext \/ RouterNext

-----------------------------------------------------------------------------
(* Specification of one Recognize call *)

QueryChars == {"a", "A", "V", "R", "W", "T", "K"}

NoIntent == [intent |-> MkIntent("", 0, <<>>), err |-> NoError]

IntentIdle ==
    /\ query = <<>>
    /\ response = [kind |-> "error", type |-> "", conf |-> 0]
    /\ recognized = NoIntent
    /\ rpc = "idle"

RecognizeCall ==
    /\ rpc = "idle"
    /\ \E q \in SeqsUpTo(QueryChars, MaxQueryLen), r \in IntentResponses :
          /\ query' = q
          /\ response' = r
          /\ recognized' = Recognize(q, r)
    /\ rpc' = "done"
    /\ UNCHANGED <<graphVars, memoryVars, restVars>>

IntentNext == RecognizeCall

-----------------------------------------------------------------------------
(* internal/memory: the tiers and the MemoryManager *)

MemoryTypeShortTerm == "short_term"
MemoryTypeWorking   == "working"

Sessions == {"s1", "s2"}

\* The importances Store is called with: below, at and above the 0.7 line.
Importances == {69, 70, 71}

\* What the long-term collaborators do for one LongTermMemory.Store: all
\* succeed, or the embedding function, the vector insert or the metadata
\* save fails.
LongTermOutcomes == {"ok", "embed_fail", "insert_fail", "save_fail"}

\* time.Time{}: the zero CreatedAt of a memory the caller did not stamp.
ZeroTime == -1

\* What the last operation on the tiers was: its name, its session, the
\* session's short-term list before it, what it returned, and whether it
\* created a compressed memory.
MkOp(op, session, before, result, fired) ==
    [op |-> op, session |-> session, before |-> before, result |-> result, fired |-> fired]

NoOp == MkOp("none", "", <<>>, <<>>, FALSE)

\* ShortTermMemory.Set keeping the oldest maxItems entries.
ShortTermSetKeepsOldest(store, memory) ==
    LET memories == Append(store[memory.SessionID], memory)
        kept     == IF Len(memories) > maxItems
                    THEN SubSeq(memories, 1, maxItems)
                    ELSE memories
    IN  [store EXCEPT ![memory.SessionID] = kept]

\* ShortTermMemory.Set: append, then keep the last maxItems entries.
ShortTermSet(store, memory) ==
    LET memories == Append(store[memory.SessionID], memory)
        kept     == IF Len(memories) > maxItems
                    THEN SubSeq(memories, Len(memories) - maxItems + 1, Len(memories))
                    ELSE memories
    IN  [store EXCEPT ![memory.SessionID] = kept]

\* WorkingMemory.Set: write the key, then, when the session holds more than
\* maxSize keys, delete the first key of a map iteration.  The results are
\* all the stores the iteration order can produce.
WithKey(session, key, value) == {kv \in session : kv[1] # key} \cup {<<key, value>>}

\* The eviction loop without its break: it deletes every key.
DeletedNoBreak(written, victim) == written

\* The eviction loop of WorkingMemory.Set: delete the first key the map
\* iteration yields, then break.
Deleted(written, victim) == {victim}

\* WorkingMemory.Set evicting only when two keys over the limit.
WorkingSetLateEviction(store, sessionID, key, value) ==
    LET written == WithKey(store[sessionID], key, value)
    IN  IF Cardinality(written) > maxSize + 1
        THEN {[store EXCEPT ![sessionID] = written \ {victim}] : victim \in written}
        ELSE {[store EXCEPT ![sessionID] = written]}

WorkingSet(store, sessionID, key, value) ==
    LET written == WithKey(store[sessionID], key, value)
    IN  IF Cardinality(written) > maxSize
        THEN {[store EXCEPT ![sessionID] = written \ Deleted(written, victim)] :
                 victim \in written}
        ELSE {[store EXCEPT ![sessionID] = written]}

\* WorkingMemory.Get: whether the session has the key.
WorkingGet(store, sessionID, key) == \E kv \in store[sessionID] : kv[1] = key

\* LongTermMemory.Store taking the vector back out when the metadata save
\* fails.
LongTermStoreRollsBack(vec, meta, memory, outcome) ==
    IF outcome = "embed_fail"
    THEN [vec |-> vec, meta |-> meta, err |-> "failed to generate embedding"]
    ELSE IF outcome = "insert_fail"
    THEN [vec |-> vec, meta |-> meta, err |-> "failed to insert to vector store"]
    ELSE IF outcome = "save_fail"
    THEN [vec |-> vec, meta |-> meta, err |-> "failed to save metadata"]
    ELSE [vec |-> vec \cup {memory.ID},
          meta |-> {m \in meta : m.ID # memory.ID} \cup {memory}, err |-> NoError]

\* LongTermMemory.Store: embedding, vector insert, metadata save, each of
\* which can fail and end the call.
LongTermStore(vec, meta, memory, outcome) ==
    IF outcome = "embed_fail"
    THEN [vec |-> vec, meta |-> meta, err |-> "failed to generate embedding"]
    ELSE IF outcome = "insert_fail"
    THEN [vec |-> vec, meta |-> meta, err |-> "failed to insert to vector store"]
    ELSE IF outcome = "save_fail"
    THEN [vec |-> vec \cup {memory.ID}, meta |-> meta, err |-> "failed to save metadata"]
    ELSE [vec |-> vec \cup {memory.ID},
          meta |-> {m \in meta : m.ID # memory.ID} \cup {memory}, err |-> NoError]

\* The routing test never recognising the working type.
IsWorkingNever(memory) == memory.Type = "scratch"

\* MemoryManager.Store: the test that routes a memory to the scratchpad only.
IsWorking(memory) == memory.Type = MemoryTypeWorking

\* The promotion test including the threshold itself.
IsPromotedAtThreshold(memory) == memory.Importance >= 70

\* MemoryManager.Store: the test that promotes a memory to long-term.
IsPromoted(memory) == memory.Importance > 70

\* MemoryManager.Store.  An absent ID (0) is replaced by a fresh uuid, a
\* zero CreatedAt (-1) by the current time.
Store(in, outcome) ==
    /\ Len(history) < MaxStores
    /\ LET withID == IF in.ID = 0 THEN [in EXCEPT !.ID = nextID] ELSE in
           memory == IF withID.CreatedAt = ZeroTime
                     THEN [withID EXCEPT !.CreatedAt = now] ELSE withID
       IN  /\ nextID' = nextID + 1
           /\ lastOp' = MkOp("Store", memory.SessionID, shortTerm[memory.SessionID], <<>>, FALSE)
           /\ UNCHANGED <<maxItems, maxSize, now>>
           /\ IF IsWorking(memory)
              THEN /\ working' \in WorkingSet(working, memory.SessionID, memory.ID, memory.Content)
                   /\ keyLog' = [keyLog EXCEPT ![memory.SessionID] = @ \cup {memory.ID}]
                   /\ UNCHANGED <<shortTerm, vectorStore, metadataStore, setLog>>
                   /\ history' = Append(history, [memory |-> memory, err |-> NoError])
              ELSE /\ shortTerm' = ShortTermSet(shortTerm, memory)
                   /\ setLog' = [setLog EXCEPT ![memory.SessionID] = Append(@, memory)]
                   /\ UNCHANGED <<working, keyLog>>
                   /\ IF IsPromoted(memory)
                      THEN LET lt == LongTermStore(vectorStore, metadataStore, memory, outcome)
                           IN  /\ vectorStore' = lt.vec
                               /\ metadataStore' = lt.meta
                               /\ history' = Append(history, [memory |-> memory, err |-> lt.err])
                      ELSE /\ UNCHANGED <<vectorStore, metadataStore>>
                           /\ history' = Append(history, [memory |-> memory, err |-> NoError])

MemoryInputs ==
    {[ID |-> 0, SessionID |-> s, Type |-> t, Content |-> "c", Importance |-> i,
      CreatedAt |-> ZeroTime] :
        s \in Sessions, t \in {MemoryTypeShortTerm, MemoryTypeWorking}, i \in Importances}

StoreCall ==
    /\ \E in \in MemoryInputs, outcome \in LongTermOutcomes :
          \* the long-term collaborators are only reached by a promoted memory
          /\ (IsWorking(in) \/ ~IsPromoted(in)) => outcome = "ok"
          /\ Store(in, outcome)
    /\ UNCHANGED <<intentVars, graphVars, restVars>>

\* The tiers and the manager right after construction.
MemoryEmpty ==
    /\ shortTerm = [s \in Sessions |-> <<>>]
    /\ working = [s \in Sessions |-> {}]
    /\ vectorStore = {}
    /\ metadataStore = {}
    /\ nextID = 1
    /\ history = <<>>
    /\ now = 0
    /\ setLog = [s \in Sessions |-> <<>>]
    /\ keyLog = [s \in Sessions |-> {}]
    /\ lastOp = NoOp

MemoryIdle ==
    /\ MemoryEmpty
    /\ maxItems = MaxItems
    /\ maxSize = MaxSize

MemoryNext == StoreCall

-----------------------------------------------------------------------------
(* internal/memory: the ShortTerm and Working tiers called directly *)

MaxTime == TTL + 1

WorkingKeys == {"k1", "k2", "k3"}

\* ShortTermMemory.Get dropping an entry only once it is older than the TTL.
ShortTermGetInclusive(store, sessionID, t) ==
    LET validMemories == SelectSeq(store[sessionID], LAMBDA mem : t - mem.CreatedAt <= TTL)
    IN  [valid |-> validMemories, store |-> [store EXCEPT ![sessionID] = validMemories]]

\* ShortTermMemory.Get at time t: the entries with now.Sub(CreatedAt) < ttl
\* are returned and written back.
ShortTermGet(store, sessionID, t) ==
    LET validMemories == SelectSeq(store[sessionID], LAMBDA mem : t - mem.CreatedAt < TTL)
    IN  [valid |-> validMemories, store |-> [store EXCEPT ![sessionID] = validMemories]]

\* A memory a caller hands to ShortTermMemory.Set, stamped with the time.
TierMemory(s) ==
    [ID |-> nextID, SessionID |-> s, Type |-> MemoryTypeShortTerm, Content |-> "c",
     Importance |-> 50, CreatedAt |-> now]

SetCall ==
    /\ nextID <= MaxSets
    /\ \E s \in Sessions :
          LET memory == TierMemory(s)
          IN  /\ shortTerm' = ShortTermSet(shortTerm, memory)
              /\ setLog' = [setLog EXCEPT ![s] = Append(@, memory)]
              /\ lastOp' = MkOp("Set", s, shortTerm[s], <<>>, FALSE)
    /\ nextID' = nextID + 1
    /\ UNCHANGED <<working, vectorStore, metadataStore, history, maxItems, maxSize,
                   now, keyLog, intentVars, graphVars, restVars>>

GetCall ==
    /\ \E s \in Sessions :
          LET r == ShortTermGet(shortTerm, s, now)
          IN  /\ shortTerm' = r.store
              /\ lastOp' = MkOp("Get", s, shortTerm[s], r.valid, FALSE)
    /\ UNCHANGED <<working, vectorStore, metadataStore, nextID, history, maxItems,
                   maxSize, now, setLog, keyLog, intentVars, graphVars, restVars>>

WorkingSetCall ==
    /\ \E s \in Sessions, key \in WorkingKeys :
          /\ working' \in WorkingSet(working, s, key, "c")
          /\ keyLog' = [keyLog EXCEPT ![s] = @ \cup {key}]
          /\ lastOp' = MkOp("WorkingSet", s, shortTerm[s], <<key>>, FALSE)
    /\ UNCHANGED <<shortTerm, vectorStore, metadataStore, nextID, history, maxItems,
                   maxSize, now, setLog, intentVars, graphVars, restVars>>

\* Time passes between two calls.
Tick ==
    /\ now < MaxTime
    /\ now' = now + 1
    /\ lastOp' = MkOp("Tick", "", <<>>, <<>>, FALSE)
    /\ UNCHANGED <<shortTerm, working, vectorStore, metadataStore, nextID, history,
                   maxItems, maxSize, setLog, keyLog, intentVars, graphVars, restVars>>

\* NewShortTermMemory(maxItems, ttl), NewWorkingMemory(maxSize)
TiersIdle ==
    /\ MemoryEmpty
    /\ maxItems \in {MaxItems, MaxItems + 1}
    /\ maxSize \in {MaxSize, MaxSize + 1}

ShortTermNext == SetCall \/ GetCall \/ Tick

WorkingNext == WorkingSetCall

-----------------------------------------------------------------------------
(* internal/memory: the MemoryManager operations on a running session *)

MemoryTypeCompressed == "compressed"

\* MemoryManager.Compress: if len(memories) < 10 { return nil }
CompressThreshold == 10

\* MemoryManager.Compress: Importance: 0.9
CompressedImportance == 90

\* MemoryCompressor.Compress: the count of the memories, then the contents
\* of the first three (the contents here are shorter than the 100 bytes at
\* which the code cuts them).
CompressorSummary(memories) ==
    <<Len(memories)>> \o
    [i \in 1..(IF Len(memories) < 3 THEN Len(memories) ELSE 3) |-> memories[i].Content]

\* ShortTermMemory.Clear
ShortTermClear(store, sessionID) == [store EXCEPT ![sessionID] = <<>>]

\* WorkingMemory.Clear dropping every session's scratchpad.
WorkingClearAll(store, sessionID) == [s \in DOMAIN store |-> {}]

\* WorkingMemory.Clear
WorkingClear(store, sessionID) == [store EXCEPT ![sessionID] = {}]

\* MemoryManager.Compress returning early at the threshold itself.
CompressSkipsAtThreshold(memories) == Len(memories) <= CompressThreshold

\* MemoryManager.Compress: the early return, if len(memories) < 10.
CompressSkips(memories) == Len(memories) < CompressThreshold

\* MemoryManager.Compress
CompressCall ==
    /\ \E s \in Sessions, outcome \in LongTermOutcomes :
          LET r == ShortTermGet(shortTerm, s, now)
          IN  /\ shortTerm' = r.store
              /\ IF CompressSkips(r.valid)
                 THEN /\ outcome = "ok"
                      /\ lastOp' = MkOp("Compress", s, shortTerm[s], r.valid, FALSE)
                      /\ UNCHANGED <<vectorStore, metadataStore, nextID>>
                 ELSE LET compressedMemory ==
                              [ID |-> nextID, SessionID |-> s, Type |-> MemoryTypeCompressed,
                               Content |-> CompressorSummary(r.valid),
                               Importance |-> CompressedImportance, CreatedAt |-> now]
                          lt == LongTermStore(vectorStore, metadataStore, compressedMemory, outcome)
                      IN  /\ nextID <= Len(history) + MaxCompress
                          /\ vectorStore' = lt.vec
                          /\ metadataStore' = lt.meta
                          /\ nextID' = nextID + 1
                          /\ lastOp' = MkOp("Compress", s, shortTerm[s], r.valid, TRUE)
    /\ UNCHANGED <<working, history, maxItems, maxSize, now, setLog, keyLog,
                   intentVars, graphVars, restVars>>

\* MemoryManager.ClearSession
ClearSessionCall ==
    /\ \E s \in Sessions :
          /\ shortTerm' = ShortTermClear(shortTerm, s)
          /\ working' = WorkingClear(working, s)
          /\ lastOp' = MkOp("ClearSession", s, shortTerm[s], <<>>, FALSE)
    /\ UNCHANGED <<vectorStore, metadataStore, nextID, history, maxItems, maxSize,
                   now, setLog, keyLog, intentVars, graphVars, restVars>>

\* MemoryManager.Retrieve: its reads of the Working and LongTerm tiers
\* change nothing, its ShortTerm read is a Get, which rewrites the list.
RetrieveCall ==
    /\ \E s \in Sessions :
          LET r == ShortTermGet(shortTerm, s, now)
          IN  /\ shortTerm' = r.store
              /\ lastOp' = MkOp("Retrieve", s, shortTerm[s], r.valid, FALSE)
    /\ UNCHANGED <<working, vectorStore, metadataStore, nextID, history, maxItems,
                   maxSize, now, setLog, keyLog, intentVars, graphVars, restVars>>

\* A session that has been running: n unpromoted memories stored at time 0.
Prefilled(s, n) ==
    [i \in 1..n |-> [ID |-> 100 + i, SessionID |-> s, Type |-> MemoryTypeShortTerm,
                     Content |-> "c", Importance |-> 50, CreatedAt |-> 0]]

\* The fill levels of session s1: around the threshold.
FillLevels == (CompressThreshold - 1)..MaxFill

\* The memories the running session stores: a promoted one and a
\* scratchpad entry, for either session.
ManagerInputs ==
    {in \in MemoryInputs : in.Importance = 71}

\* MemoryManager.Store on the running manager; the failures of its
\* long-term collaborators are the subject of StoreCall.
ManagerStoreCall ==
    /\ Len(history) < MaxManagerStores
    /\ \E in \in ManagerInputs : Store(in, "ok")
    /\ UNCHANGED <<intentVars, graphVars, restVars>>

\* A manager whose short-term tier holds up to MaxFill memories per
\* session, with session s1 filled around the threshold and one
\* key on the scratchpad of session s2.
ManagerIdle ==
    /\ maxItems = MaxFill
    /\ maxSize = MaxSize
    /\ \E n \in FillLevels :
          /\ shortTerm = [s \in Sessions |-> IF s = "s1" THEN Prefilled(s, n) ELSE <<>>]
          /\ setLog = [s \in Sessions |-> IF s = "s1" THEN Prefilled(s, n) ELSE <<>>]
    /\ working = [s \in Sessions |-> IF s = "s2" THEN {<<100, "c">>} ELSE {}]
    /\ vectorStore = {}
    /\ metadataStore = {}
    /\ nextID = 1
    /\ history = <<>>
    /\ now = 0
    /\ keyLog = [s \in Sessions |-> IF s = "s2" THEN {100} ELSE {}]
    /\ lastOp = NoOp

\* The session stays idle for a whole TTL.
IdleForTTL ==
    /\ now = 0
    /\ now' = TTL
    /\ lastOp' = MkOp("Tick", "", <<>>, <<>>, FALSE)
    /\ UNCHANGED <<shortTerm, working, vectorStore, metadataStore, nextID, history,
                   maxItems, maxSize, setLog, keyLog, intentVars, graphVars, restVars>>

ManagerNext ==
    ManagerStoreCall \/ RetrieveCall \/ CompressCall \/ ClearSessionCall \/ IdleForTTL

-----------------------------------------------------------------------------
(* internal/memory: ContextBuilder *)

\* A message content: its text and len(content), its length in bytes.
Text(text, bytes) == [text |-> text, bytes |-> bytes]

\* ContextBuilder.estimateTokens: int(float64(len(text)) * 0.75)
estimateTokens(content) == (content.bytes * 3) \div 4

\* compress: keepCount := 3
keepCount == 3

\* The bytes of fmt.Sprintf("%d", n).
DecimalBytes(n) == IF n < 10 THEN 1 ELSE IF n < 100 THEN 2 ELSE 3

\* summarizeMessages: the bytes of the format around %d, six and three
\* three-byte characters and two spaces.
SummaryFrameBytes == 29

\* compress: the bytes of the prefix "历史对话摘要: ".
SummaryPrefixBytes == 20

\* ContextBuilder.summarizeMessages
summarizeMessages(msgs) ==
    Text(<<"earlier_messages", Len(msgs)>>, SummaryFrameBytes + DecimalBytes(Len(msgs)))

RECURSIVE SumTokens(_)
\* compress: the loop that adds up msg.Tokens.
SumTokens(msgs) ==
    IF msgs = <<>> THEN 0 ELSE msgs[1].Tokens + SumTokens(Tail(msgs))

\* ContextBuilder.compress leaving the running count as it was.
compressNoRecount(msgs, tokens) ==
    IF Len(msgs) <= 2
    THEN [messages |-> msgs, currentTokens |-> tokens]
    ELSE IF Len(msgs) > keepCount
    THEN LET oldMessages == SubSeq(msgs, 1, Len(msgs) - keepCount)
             summary     == summarizeMessages(oldMessages)
             kept        == SubSeq(msgs, Len(msgs) - keepCount + 1, Len(msgs))
             replaced    == <<[Role |-> "system",
                               Content |-> Text(<<"history_summary", summary.text>>,
                                                SummaryPrefixBytes + summary.bytes),
                               Tokens |-> estimateTokens(summary)]>> \o kept
         IN  [messages |-> replaced, currentTokens |-> tokens]
    ELSE [messages |-> msgs, currentTokens |-> tokens]

\* ContextBuilder.compress: with more than keepCount messages, the older
\* ones become one system message whose Tokens are the estimate of the
\* summary without its prefix, and the running count is added up again.
compress(msgs, tokens) ==
    IF Len(msgs) <= 2
    THEN [messages |-> msgs, currentTokens |-> tokens]
    ELSE IF Len(msgs) > keepCount
    THEN LET oldMessages == SubSeq(msgs, 1, Len(msgs) - keepCount)
             summary     == summarizeMessages(oldMessages)
             kept        == SubSeq(msgs, Len(msgs) - keepCount + 1, Len(msgs))
             replaced    == <<[Role |-> "system",
                               Content |-> Text(<<"history_summary", summary.text>>,
                                                SummaryPrefixBytes + summary.bytes),
                               Tokens |-> estimateTokens(summary)]>> \o kept
         IN  [messages |-> replaced, currentTokens |-> SumTokens(replaced)]
    ELSE [messages |-> msgs, currentTokens |-> tokens]

\* What the last AddMessage did: its number, what it returned, the token
\* estimate of its content, whether it called compress, and the list and
\* the count it found and the list compress left.
NoAdd ==
    [n |-> 0, ok |-> TRUE, tokens |-> 0, compressed |-> FALSE,
     before |-> <<>>, beforeTokens |-> 0, squeezed |-> <<>>]

Roles == {"user", "assistant"}

\* The contents a caller adds, by length: empty, a word, a paragraph.
ContentBytes == {0, 4, 44}

\* The budgets a builder is constructed with.
Budgets == {50, 100}

\* AddMessage refusing an over-budget message before it compresses.
AddMessageRejectsFirst(role, content) ==
    LET tokens == estimateTokens(content)
        reject == currentTokens + tokens > maxTokens
    IN  /\ messages' = IF reject THEN messages
                       ELSE Append(messages,
                                   [Role |-> role, Content |-> content, Tokens |-> tokens])
        /\ currentTokens' = IF reject THEN currentTokens ELSE currentTokens + tokens
        /\ lastAdd' = [n |-> lastAdd.n + 1, ok |-> ~reject, tokens |-> tokens,
                       compressed |-> reject, before |-> messages,
                       beforeTokens |-> currentTokens, squeezed |-> messages]
        /\ UNCHANGED maxTokens

\* ContextBuilder.AddMessage
AddMessage(role, content) ==
    LET tokens == estimateTokens(content)
        over   == currentTokens + tokens > maxTokens
        c      == IF over THEN compress(messages, currentTokens)
                  ELSE [messages |-> messages, currentTokens |-> currentTokens]
        reject == c.currentTokens + tokens > maxTokens
    IN  /\ messages' = IF reject THEN c.messages
                       ELSE Append(c.messages,
                                   [Role |-> role, Content |-> content, Tokens |-> tokens])
        /\ currentTokens' = IF reject THEN c.currentTokens ELSE c.currentTokens + tokens
        /\ lastAdd' = [n |-> lastAdd.n + 1, ok |-> ~reject, tokens |-> tokens,
                       compressed |-> over, before |-> messages,
                       beforeTokens |-> currentTokens, squeezed |-> c.messages]
        /\ UNCHANGED maxTokens

AddMessageCall ==
    /\ lastAdd.n < MaxAdds
    /\ \E role \in Roles, bytes \in ContentBytes : AddMessage(role, Text(<<"m">>, bytes))
    /\ UNCHANGED <<intentVars, graphVars, memoryVars, raceVars, loopVars, laterVars>>

\* NewContextBuilder(0)
ContextIdle ==
    /\ maxTokens = 0
    /\ currentTokens = 0
    /\ messages = <<>>
    /\ lastAdd = NoAdd

\* NewContextBuilder(maxTokens)
ContextNew ==
    /\ maxTokens \in Budgets
    /\ currentTokens = 0
    /\ messages = <<>>
    /\ lastAdd = NoAdd

ContextNext == AddMessageCall

-----------------------------------------------------------------------------
(* internal/memory: ShortTermMemory under two concurrent requests *)

Goroutines == {"g1", "g2"}

\* The session the concurrent requests share.
SharedSession == "s1"

\* The n-th memory goroutine g sets.
RaceMemory(g, n) ==
    [ID |-> <<g, n>>, SessionID |-> SharedSession, Type |-> MemoryTypeShortTerm,
     Content |-> "c", Importance |-> 50, CreatedAt |-> now]

\* The statement a goroutine is at: outside a call, or between the map
\* read and the map write of a Set or a Get, or stopped by the runtime.
RaceIdle ==
    /\ gpc = [g \in Goroutines |-> "idle"]
    /\ gop = [g \in Goroutines |-> [op |-> "none", n |-> 0]]
    /\ glocal = [g \in Goroutines |-> <<>>]
    /\ gstore = [s \in Sessions |-> <<>>]
    /\ gdone = {}
    /\ gfault = FALSE

\* ShortTermMemory.Set up to its map write: memories := m.store[id], the
\* append and the cut are on the goroutine's own slice header.
SetRead(g) ==
    /\ gpc[g] = "idle"
    /\ gop[g].n < MaxCalls
    /\ LET memory == RaceMemory(g, gop[g].n + 1)
       IN  /\ gop' = [gop EXCEPT ![g] = [op |-> "Set", n |-> @.n + 1]]
           /\ glocal' = [glocal EXCEPT ![g] = ShortTermSet(gstore, memory)[SharedSession]]
    /\ gpc' = [gpc EXCEPT ![g] = "write"]
    /\ UNCHANGED <<gstore, gdone, gfault>>

\* ShortTermMemory.Get up to its map write.  A session with no entry
\* returns at once; no list becomes empty here once it has an entry.
GetRead(g) ==
    /\ gpc[g] = "idle"
    /\ gop[g].n < MaxCalls
    /\ gop' = [gop EXCEPT ![g] = [op |-> "Get", n |-> @.n + 1]]
    /\ IF gstore[SharedSession] = <<>>
       THEN UNCHANGED <<gpc, glocal>>
       ELSE /\ glocal' = [glocal EXCEPT ![g] = ShortTermGet(gstore, SharedSession, now).valid]
            /\ gpc' = [gpc EXCEPT ![g] = "write"]
    /\ UNCHANGED <<gstore, gdone, gfault>>

\* m.store[id] = ..., the last statement of Set and of Get, and the return.
MapWrite(g) ==
    /\ gpc[g] = "write"
    /\ gstore' = [gstore EXCEPT ![SharedSession] = glocal[g]]
    /\ gpc' = [gpc EXCEPT ![g] = "idle"]
    /\ gdone' = IF gop[g].op = "Set" THEN gdone \cup {<<g, gop[g].n>>} ELSE gdone
    /\ UNCHANGED <<gop, glocal, gfault>>

\* Two goroutines inside the unguarded map at once: the runtime may stop
\* the process (fatal error: concurrent map writes, or concurrent map read
\* and map write).  When it does not, the accesses take effect in some
\* order, which SetRead, GetRead and MapWrite interleave.
MapFault ==
    /\ ~gfault
    /\ \E g \in Goroutines : \E h \in Goroutines \ {g} :
          /\ gpc[g] = "write"
          /\ gpc[h] = "write" \/ (gpc[h] = "idle" /\ gop[h].n < MaxCalls)
    /\ gfault' = TRUE
    /\ gpc' = [g \in Goroutines |-> "crashed"]
    /\ UNCHANGED <<gop, glocal, gstore, gdone>>

OutsideRace == <<intentVars, graphVars, memoryVars, contextVars, loopVars, laterVars>>

SetReadStep == (\E g \in Goroutines : SetRead(g)) /\ UNCHANGED OutsideRace

GetReadStep == (\E g \in Goroutines : GetRead(g)) /\ UNCHANGED OutsideRace

MapWriteStep == (\E g \in Goroutines : MapWrite(g)) /\ UNCHANGED OutsideRace

MapFaultStep == MapFault /\ UNCHANGED OutsideRace

RaceNext == SetReadStep \/ GetReadStep \/ MapWriteStep \/ MapFaultStep

\* A ShortTermMemory with room for every memory the goroutines set.
RaceTiers ==
    /\ MemoryEmpty
    /\ maxItems = MaxFill
    /\ maxSize = MaxSize

-----------------------------------------------------------------------------
(* internal/orchestrator: the tool loop under the request context *)

\* Chat: context.WithTimeout(context.Background(), 5*time.Minute), in
\* minutes.
RequestDeadline == 5

\* The clock stops one minute after the request deadline.
MaxClock == RequestDeadline + 1

\* How the remote tool behind a selection behaves once invoked.
ToolBehaviours == {"answers", "fails", "hangs"}

RECURSIVE SelectionsOfLen(_)
SelectionsOfLen(n) ==
    IF n = 0 THEN {<<>>}
    ELSE {Append(q, t) : q \in SelectionsOfLen(n - 1), t \in ToolBehaviours}

\* state.SelectedTools, each selection standing for its tool's behaviour.
Selections == UNION {SelectionsOfLen(n) : n \in 0..MaxSelected}

LoopIdle ==
    /\ tpc = "idle"
    /\ tclock = 0
    /\ tselected = <<>>
    /\ tresults = <<>>
    /\ tcalls = <<>>

OutsideLoop == <<intentVars, graphVars, memoryVars, contextVars, raceVars, laterVars>>

\* toolExecutionNode is entered: no selection skips the stage.
LoopEnter ==
    /\ tpc = "idle"
    /\ \E q \in Selections :
          /\ tselected' = q
          /\ tpc' = IF q = <<>> THEN "done" ELSE "loop"
    /\ UNCHANGED <<tclock, tresults, tcalls, OutsideLoop>>

\* The loop body up to the call: toolStartTime := time.Now(), then
\* ExecuteTool(ctx, ...) with the request context itself.
BeginCall ==
    /\ tpc = "loop"
    /\ Len(tresults) < Len(tselected)
    /\ tcalls' = Append(tcalls, [tool |-> Len(tresults) + 1, start |-> tclock])
    /\ tpc' = "calling"
    /\ UNCHANGED <<tclock, tselected, tresults, OutsideLoop>>

\* The result the loop appends for the call in progress.
ToolResult(err) ==
    [tool |-> Len(tresults) + 1, err |-> err,
     start |-> tcalls[Len(tcalls)].start, end |-> tclock]

\* The remote tool answers or reports a failure while the request
\* context is alive; the result is appended and the loop goes on.
ToolReturns ==
    /\ tpc = "calling"
    /\ tclock < RequestDeadline
    /\ tselected[Len(tresults) + 1] # "hangs"
    /\ tresults' = Append(tresults,
                          ToolResult(IF tselected[Len(tresults) + 1] = "fails"
                                     THEN "tool_failed" ELSE NoError))
    /\ tpc' = "loop"
    /\ UNCHANGED <<tclock, tselected, tcalls, OutsideLoop>>

\* The request context is done: the call in progress, hung or not,
\* returns the context's error.
ContextDone ==
    /\ tpc = "calling"
    /\ tclock >= RequestDeadline
    /\ tresults' = Append(tresults, ToolResult("context deadline exceeded"))
    /\ tpc' = "loop"
    /\ UNCHANGED <<tclock, tselected, tcalls, OutsideLoop>>

\* state.ToolResults = toolResults; return state, nil
LoopExit ==
    /\ tpc = "loop"
    /\ Len(tresults) = Len(tselected)
    /\ tpc' = "done"
    /\ UNCHANGED <<tclock, tselected, tresults, tcalls, OutsideLoop>>

\* A minute passes while a call is in progress.
MinutePasses ==
    /\ tpc = "calling"
    /\ tclock < MaxClock
    /\ tclock' = tclock + 1
    /\ UNCHANGED <<tpc, tselected, tresults, tcalls, OutsideLoop>>

LoopNext ==
    LoopEnter \/ BeginCall \/ ToolReturns \/ ContextDone \/ LoopExit \/ MinutePasses

-----------------------------------------------------------------------------
(* internal/orchestrator: one request on a clock of 10-second ticks *)

\* Recognize: context.WithTimeout(ctx, 10*time.Second)
ClassifyTimeout == 1

\* selectToolsWithLLM: context.WithTimeout(ctx, 30*time.Second)
SelectTimeout == 3

\* performVideoAnalysis: context.WithTimeout(ctx, 5*time.Minute)
AnalysisTimeout == 30

\* generateGeneralChatResponse: context.WithTimeout(ctx, 30*time.Second)
ChatTimeout == 3

\* Chat: the 5 minutes of the request context, in ticks.
RequestDeadlineTicks == RequestDeadline * 6

\* The clock stops one tick after the request deadline.
MaxTicks == RequestDeadlineTicks + 1

\* The stages that call a dependency: the classification, selection,
\* analysis and chat model calls and the tool invocation.
Stages == {"classify", "select", "tools", "analysis", "chat"}

\* The stages whose call runs under a context.WithTimeout of its own.
TimedStages == {"classify", "select", "analysis", "chat"}

StageTimeout(stage) ==
    IF stage = "classify" THEN ClassifyTimeout
    ELSE IF stage = "select" THEN SelectTimeout
    ELSE IF stage = "analysis" THEN AnalysisTimeout
    ELSE ChatTimeout

\* When the context of a call begun at start is done: the earlier of its
\* own timer and the request deadline; toolExecutionNode passes the
\* request context itself.
CallDeadline(stage, start) ==
    IF stage \in TimedStages /\ start + StageTimeout(stage) < RequestDeadlineTicks
    THEN start + StageTimeout(stage)
    ELSE RequestDeadlineTicks

\* The stages that can follow a stage: the intent decides after the
\* classification.
NextStages(stage) ==
    IF stage = "classify" THEN {"select", "chat"}
    ELSE IF stage = "select" THEN {"tools"}
    ELSE IF stage = "tools" THEN {"analysis"}
    ELSE {"done"}

RequestIdle ==
    /\ qpc = "idle"
    /\ qflight = FALSE
    /\ qclock = 0
    /\ qstart = 0
    /\ qhangs = {}
    /\ qlog = <<>>
    /\ qparent = "alive"

OutsideRequest ==
    <<intentVars, graphVars, memoryVars, contextVars, raceVars, loopVars, callVars,
      catalogVars, finalVars>>

\* Chat: execCtx is created, Execute begins; some dependencies are down.
RequestArrives ==
    /\ qpc = "idle"
    /\ \E hung \in SUBSET Stages :
          /\ Cardinality(hung) <= MaxHung
          /\ qhangs' = hung
    /\ qpc' = "classify"
    /\ UNCHANGED <<qflight, qclock, qstart, qlog, qparent, OutsideRequest>>

\* The stage makes its external call.
CallBegins ==
    /\ qpc \in Stages
    /\ ~qflight
    /\ qflight' = TRUE
    /\ qstart' = qclock
    /\ UNCHANGED <<qpc, qclock, qhangs, qlog, qparent, OutsideRequest>>

\* The dependency answers while the call's context is alive.
CallAnswers ==
    /\ qflight
    /\ qpc \notin qhangs
    /\ qclock < CallDeadline(qpc, qstart)
    /\ qlog' = Append(qlog, [stage |-> qpc, outcome |-> "ok"])
    /\ qflight' = FALSE
    /\ qpc' \in NextStages(qpc)
    /\ UNCHANGED <<qclock, qstart, qhangs, qparent, OutsideRequest>>

\* The call's context is done: the call returns its error and the stage
\* goes on with its fallback.
CallExpires ==
    /\ qflight
    /\ qclock >= CallDeadline(qpc, qstart)
    /\ qlog' = Append(qlog, [stage |-> qpc,
                             outcome |-> IF qclock >= RequestDeadlineTicks
                                         THEN "request_deadline" ELSE "stage_timeout"])
    /\ qflight' = FALSE
    /\ qpc' \in NextStages(qpc)
    /\ UNCHANGED <<qclock, qstart, qhangs, qparent, OutsideRequest>>

\* Ten seconds pass while a call is in flight.
TickPasses ==
    /\ qflight
    /\ qclock < MaxTicks
    /\ qclock' = qclock + 1
    /\ UNCHANGED <<qpc, qflight, qstart, qhangs, qlog, qparent, OutsideRequest>>

\* The caller gives up while a call is in flight: the context the handler
\* was called with is cancelled.  execCtx descends from
\* context.Background(), so nothing the request runs under changes.
ParentCancelled ==
    /\ qflight
    /\ qparent = "alive"
    /\ qparent' = "cancelled"
    /\ UNCHANGED <<qpc, qflight, qclock, qstart, qhangs, qlog, OutsideRequest>>

RequestNext ==
    RequestArrives \/ CallBegins \/ CallAnswers \/ CallExpires \/ TickPasses \/ ParentCancelled

-----------------------------------------------------------------------------
(* internal/orchestrator: extraction of the video data, at the level of the
   payload's encoding.  A Go value is a tagged record; a number of a JSON
   document and a float64 are held in tenths, so that 12345 is 123450. *)

GoNil          == [t |-> "nil"]
GoString(str)  == [t |-> "string", v |-> str]
GoFloat(tenths) == [t |-> "float64", v |-> tenths]
GoInt(kind, n) == [t |-> kind, v |-> n]
GoMap(f)       == [t |-> "map", v |-> f]
GoSlice(q)     == [t |-> "slice", v |-> q]

\* The integer types toInt has a case for.
IntKinds ==
    {"int", "int8", "int16", "int32", "int64", "uint", "uint8", "uint16", "uint32", "uint64"}

\* A JSON document: null, a string, a number in tenths, an object, an array.
JNull       == [j |-> "null"]
JStr(str)   == [j |-> "str", v |-> str]
JNum(tenths) == [j |-> "num", v |-> tenths]
JObj(f)     == [j |-> "obj", v |-> f]
JArr(q)     == [j |-> "arr", v |-> q]

\* The object with one key.
One(k, v) == [x \in {k} |-> v]

\* A string by its content: plain characters (none of the model's plain
\* strings is valid base64 or a JSON object), a JSON document written out,
\* the base64 of a string, or bytes that are none of these.
PlainText(str) == [enc |-> "plain", of |-> str]
JSONText(doc)  == [enc |-> "json", of |-> doc]
Base64(text)   == [enc |-> "base64", of |-> text]
Garbage        == [enc |-> "garbage"]

RECURSIVE Decode(_)
\* json.Unmarshal into interface{}: every number becomes a float64, every
\* object a map[string]interface{}, every array a []interface{}.
Decode(doc) ==
    IF doc.j = "null" THEN GoNil
    ELSE IF doc.j = "str" THEN GoString(doc.v)
    ELSE IF doc.j = "num" THEN GoFloat(doc.v)
    ELSE IF doc.j = "obj" THEN GoMap([k \in DOMAIN doc.v |-> Decode(doc.v[k])])
    ELSE GoSlice([i \in DOMAIN doc.v |-> Decode(doc.v[i])])

\* json.Unmarshal(text, &m) with m a map[string]interface{}: an error for
\* bytes that are no JSON and for a document that is neither an object
\* nor null; null leaves the map nil.
UnmarshalMap(text) ==
    IF text.enc # "json" THEN [err |-> "invalid json", m |-> GoNil]
    ELSE IF text.of.j = "null" THEN [err |-> NoError, m |-> GoNil]
    ELSE IF text.of.j = "obj" THEN [err |-> NoError, m |-> Decode(text.of)]
    ELSE [err |-> "cannot unmarshal into map", m |-> GoNil]

\* base64.StdEncoding.DecodeString
DecodeString(text) ==
    IF text.enc = "base64" THEN [err |-> NoError, bytes |-> text.of]
    ELSE [err |-> "illegal base64 data", bytes |-> Garbage]

RECURSIVE Encode(_)
\* json.Marshal of a result that is neither a string nor bytes.
Encode(val) ==
    IF val.t = "nil" THEN JNull
    ELSE IF val.t = "string" THEN JStr(val.v)
    ELSE IF val.t = "float64" THEN JNum(val.v)
    ELSE IF val.t = "map" THEN JObj([k \in DOMAIN val.v |-> Encode(val.v[k])])
    ELSE IF val.t = "slice" THEN JArr([i \in DOMAIN val.v |-> Encode(val.v[i])])
    ELSE JNum(val.v * 10)

\* The decimal strings of the model and the integers they write.
DecimalStrings == {PlainText("12345"), PlainText("7"), PlainText("0")}

DecimalValue(str) ==
    IF str = PlainText("12345") THEN 12345 ELSE IF str = PlainText("7") THEN 7 ELSE 0

\* int(val) of a float64 held in tenths: the fraction is cut off.
Truncate(tenths) == IF tenths >= 0 THEN tenths \div 10 ELSE 0 - ((0 - tenths) \div 10)

\* toInt without the float64 case.
toIntNoFloat(val) ==
    IF val.t \in IntKinds THEN val.v
    ELSE IF val.t = "string" THEN (IF val.v \in DecimalStrings THEN 1 ELSE 0)
    ELSE 0

\* toInt.  The string case returns what fmt.Sscanf returns, the number of
\* items it scanned: 1 for a string that starts with a decimal, else 0.
toInt(val) ==
    IF val.t \in IntKinds THEN val.v
    ELSE IF val.t \in {"float32", "float64"} THEN Truncate(val.v)
    ELSE IF val.t = "string" THEN (IF val.v \in DecimalStrings THEN 1 ELSE 0)
    ELSE 0

\* toString that prints nil as fmt.Sprintf does.
toStringPrintsNil(val) ==
    IF val.t = "string" THEN val.v ELSE PlainText("printed")

\* toString: a string as it is, nil as "", anything else as fmt.Sprintf
\* prints it.
toString(val) ==
    IF val.t = "string" THEN val.v
    ELSE IF val.t = "nil" THEN PlainText("")
    ELSE PlainText("printed")

\* v, ok := m[key]
Has(m, key) == key \in DOMAIN m.v

\* sub, ok := m[key].(map[string]interface{})
HasMap(m, key) == Has(m, key) /\ m.v[key].t = "map"

\* The result map extraction starts from.
ZeroVideoData ==
    [view_count |-> 0, like_count |-> 0, comment_count |-> 0,
     title |-> PlainText(""), description |-> PlainText(""), author |-> PlainText("")]

\* The five fields both branches copy from a video object.
VideoFields(result, video) ==
    [result EXCEPT
        !.view_count    = IF Has(video, "view_count") THEN toInt(video.v["view_count"]) ELSE @,
        !.like_count    = IF Has(video, "like_count") THEN toInt(video.v["like_count"]) ELSE @,
        !.comment_count = IF Has(video, "comment_count")
                          THEN toInt(video.v["comment_count"]) ELSE @,
        !.title         = IF Has(video, "title") THEN toString(video.v["title"]) ELSE @,
        !.description   = IF Has(video, "description")
                          THEN toString(video.v["description"]) ELSE @]

\* The fields taken from dataMap: from data.video with the author's
\* username, else, when there is no data object, from a top-level video.
FieldsOf(result, dataMap) ==
    IF HasMap(dataMap, "data")
    THEN LET innerData == dataMap.v["data"]
         IN  IF HasMap(innerData, "video")
             THEN LET video == innerData.v["video"]
                      r     == VideoFields(result, video)
                  IN  IF HasMap(video, "author") /\ Has(video.v["author"], "username")
                      THEN [r EXCEPT !.author = toString(video.v["author"].v["username"])]
                      ELSE r
             ELSE result
    ELSE IF HasMap(dataMap, "video")
    THEN VideoFields(result, dataMap.v["video"])
    ELSE result

\* The JSON string of a tool result: a string or bytes as they are,
\* anything else marshalled.
ResultText(res) ==
    IF res.t = "text" THEN res.v ELSE JSONText(Encode(res))

\* The dataMap of one tool result, GoNil when the loop goes on to the next
\* result without one.
DataMapOf(res) ==
    LET outer == UnmarshalMap(ResultText(res))
    IN  IF outer.err # NoError \/ outer.m.t = "nil" THEN GoNil
        ELSE IF /\ Has(outer.m, "content")
                /\ outer.m.v["content"].t = "slice"
                /\ Len(outer.m.v["content"].v) > 0
        THEN LET first == outer.m.v["content"].v[1]
             IN  IF first.t = "map" /\ Has(first, "text") /\ first.v["text"].t = "string"
                 THEN LET decoded == DecodeString(first.v["text"].v)
                          inner   == UnmarshalMap(decoded.bytes)
                      IN  IF decoded.err # NoError \/ inner.err # NoError
                          THEN GoNil ELSE inner.m
                 ELSE GoNil
        ELSE outer.m

RECURSIVE extractVideoData(_)
\* extractVideoDataFromToolResults on results as they come off the wire:
\* every result with a dataMap writes its fields over the earlier ones.
extractVideoData(toolResults) ==
    IF toolResults = <<>> THEN ZeroVideoData
    ELSE LET n    == Len(toolResults)
             prev == extractVideoData(SubSeq(toolResults, 1, n - 1))
             res  == toolResults[n].Result
         IN  IF res.t = "nil" THEN prev
             ELSE LET dataMap == DataMapOf(res)
                  IN  IF dataMap.t = "nil" THEN prev ELSE FieldsOf(prev, dataMap)

\* The counts a payload carries.
Counts == {0, 7, 12345}

\* A video object with every canonical field, and one with a count only.
FullVideo(n) ==
    JObj([view_count |-> JNum(n * 10), like_count |-> JNum(n * 10 + 10),
          comment_count |-> JNum(n * 10 + 20), title |-> JStr(PlainText("t")),
          description |-> JStr(PlainText("d")),
          author |-> JObj(One("username", JStr(PlainText("u"))))])

ViewOnly(n) == JObj(One("view_count", JNum(n * 10)))

\* Video objects whose fields are absent or of another type.
OddVideos ==
    {JObj(<<>>),
     JObj([view_count |-> JStr(PlainText("12345")), title |-> JNum(50),
           author |-> JStr(PlainText("u"))]),
     JObj([view_count |-> JNull, title |-> JNull]),
     JObj(One("view_count", JNum(15)))}

VideoObjects == {FullVideo(n) : n \in Counts} \cup {ViewOnly(12345)} \cup OddVideos

\* The three shapes of a payload.
DataVideoDoc(video) == JObj(One("data", JObj(One("video", video))))
TopVideoDoc(video)  == JObj(One("video", video))
FlatDoc(video)      == video

\* Payloads of no known shape.
OddDocs ==
    {JNull, JArr(<<>>), JObj(One("data", JObj(<<>>))),
     JObj([data |-> JStr(PlainText("x")), video |-> ViewOnly(7)])}

PayloadDocs ==
    {DataVideoDoc(v) : v \in VideoObjects} \cup {TopVideoDoc(v) : v \in VideoObjects}
    \cup {FlatDoc(FullVideo(7)), FlatDoc(ViewOnly(12345))} \cup OddDocs

\* A tool result that is a string.
TextResult(text) == [t |-> "text", v |-> text]

\* The payload as the JSON string itself.
PlainResult(doc) == TextResult(JSONText(doc))

\* The payload in the wrapped envelope: a content array whose first
\* element's text is the base64 of the payload's JSON.
Wrapped(doc) ==
    PlainResult(JObj(One("content",
                   JArr(<<JObj(One("text", JStr(Base64(JSONText(doc)))))>>))))

\* Results extraction has to pass over.
BrokenResults ==
    {GoNil,
     TextResult(Garbage),
     PlainResult(JObj(One("content", JArr(<<JObj(One("text", JStr(JSONText(ViewOnly(7)))))>>)))),
     PlainResult(JObj(One("content", JArr(<<JObj(One("text", JStr(Base64(Garbage))))>>)))),
     PlainResult(JObj(One("content", JArr(<<JObj(One("type", JStr(PlainText("text"))))>>)))),
     PlainResult(JObj(One("content", JArr(<<JStr(PlainText("x"))>>)))),
     PlainResult(JObj(One("content", JArr(<<>>))))}

\* Results that are Go maps already.
MapResults == {Decode(DataVideoDoc(FullVideo(7))), Decode(FlatDoc(ViewOnly(7)))}

Results ==
    {PlainResult(d) : d \in PayloadDocs} \cup {Wrapped(d) : d \in PayloadDocs}
    \cup BrokenResults \cup MapResults

\* The ToolExecutionResult of an invocation: a result, or nil and an error.
ToolOutcome(res) ==
    [Result |-> res, Error |-> IF res = GoNil THEN "tool_failed" ELSE NoError]

OutsideCall ==
    <<intentVars, graphVars, memoryVars, contextVars, raceVars, loopVars,
      requestVars, catalogVars, finalVars>>

\* performVideoAnalysis is about to extract from state.ToolResults.
ExtractReady ==
    /\ callIn \in SeqsUpTo({ToolOutcome(r) : r \in Results}, MaxResults)
    /\ callOut = <<>>
    /\ callPc = "ready"

ExtractCall ==
    /\ callPc = "ready"
    /\ callOut' = extractVideoData(callIn)
    /\ callPc' = "returned"
    /\ UNCHANGED <<callIn, OutsideCall>>

\* The values a Go integer type of each width holds, as far as the model
\* goes.
SignedKinds == {"int", "int8", "int16", "int32", "int64"}

KindValues(kind) ==
    (IF kind \in SignedKinds THEN {0 - 7} ELSE {})
    \cup {0, 7}
    \cup (IF kind = "int8" THEN {127} ELSE IF kind = "uint8" THEN {255} ELSE {12345})

\* What toInt may be handed.
CoercionInputs ==
    UNION {{GoInt(kind, n) : n \in KindValues(kind)} : kind \in IntKinds}
    \cup {[t |-> kind, v |-> tenths] :
            kind \in {"float32", "float64"}, tenths \in {0, 70, 123450, 0 - 70, 15}}
    \cup {GoString(str) : str \in DecimalStrings \cup {PlainText("t"), PlainText("")}}
    \cup {GoNil, GoMap(<<>>)}

CoerceReady ==
    /\ callIn \in CoercionInputs
    /\ callOut = <<>>
    /\ callPc = "coerce"

CoerceCall ==
    /\ callPc = "coerce"
    /\ callOut' = toInt(callIn)
    /\ callPc' = "coerced"
    /\ UNCHANGED <<callIn, OutsideCall>>

ExtractNext == ExtractCall \/ CoerceCall

\* The placeholder key of the selection prompt's template,
\* "params": {"参数名": "参数值"}; ParamValueHole is its placeholder value.
ParamNameHole == "canshuming"

\* Params objects a model answer may carry: each of the canonical key and
\* the two placeholders absent or present with an identifier.
ParamKeys == {ParamVideoID, ParamValueHole, ParamNameHole}

AnswerParams ==
    {{<<k, held[k]>> : k \in keys} :
        keys \in SUBSET ParamKeys, held \in [ParamKeys -> {"I", "J"}]}

AnswerSelections == {[Name |-> n, Params |-> p] : n \in ToolNames, p \in AnswerParams}

\* What the model may answer to the selection prompt.
AnswerContents ==
    {[kind |-> k, tools |-> <<>>] : k \in {"nojson", "badjson"}}
    \cup {[kind |-> "json", tools |-> t] : t \in SeqsUpTo(AnswerSelections, MaxTools)}

\* selectToolsWithLLM has the model's answer and is about to parse it.
ParseReady ==
    /\ callIn \in AnswerContents
    /\ callOut = <<>>
    /\ callPc = "answered"

ParseCall ==
    /\ callPc = "answered"
    /\ callOut' = parseToolSelectionResponse(callIn)
    /\ callPc' = "parsed"
    /\ UNCHANGED <<callIn, OutsideCall>>

(* The tool catalog: mcp.Manager over the SSE client.                      *)

\* Tool lists the remote server may publish.  A server with no tool is left
\* out: whether the client library then answers a nil or an empty slice
\* decides if the client caches the answer.
ServerLists == (SUBSET (Catalog \cup {"get_comments"})) \ {{}}

NoCache == [loaded |-> FALSE, tools |-> {}]

\* SSEClient.GetTools: the cached list when there is one, else the list
\* fetched from the server, which is cached.
ClientGetTools(cache, remote, reachable) ==
    IF cache.loaded THEN [tools |-> cache.tools, err |-> NoError, cache |-> cache]
    ELSE IF ~reachable THEN [tools |-> {}, err |-> "get tools failed", cache |-> cache]
    ELSE [tools |-> remote, err |-> NoError, cache |-> [loaded |-> TRUE, tools |-> remote]]

\* Manager.GetTools: the manager's cache when loaded, else the client's
\* answer, which is cached when it is no error.
ManagerGetTools(mcache, ccache, remote, reachable) ==
    IF mcache.loaded
    THEN [tools |-> mcache.tools, err |-> NoError, mcache |-> mcache, ccache |-> ccache]
    ELSE LET got == ClientGetTools(ccache, remote, reachable)
         IN  IF got.err # NoError
             THEN [tools |-> {}, err |-> got.err, mcache |-> mcache, ccache |-> got.cache]
             ELSE [tools |-> got.tools, err |-> NoError,
                   mcache |-> [loaded |-> TRUE, tools |-> got.tools], ccache |-> got.cache]

OutsideCatalog ==
    <<intentVars, graphVars, memoryVars, contextVars, raceVars, loopVars,
      requestVars, callVars, finalVars>>

\* NewManager over a server that publishes some list.
CatalogNew ==
    /\ remoteTools \in ServerLists
    /\ clientCache = NoCache
    /\ managerCache = NoCache
    /\ catalogOp = [op |-> "none", tools |-> {}, err |-> NoError]

\* The MCP server updates its tools.
ServerChanges ==
    /\ \E list \in ServerLists \ {remoteTools} : remoteTools' = list
    /\ catalogOp' = [op |-> "ServerChanges", tools |-> {}, err |-> NoError]
    /\ UNCHANGED <<clientCache, managerCache, OutsideCatalog>>

GetToolsCall ==
    /\ \E reachable \in BOOLEAN :
          LET got == ManagerGetTools(managerCache, clientCache, remoteTools, reachable)
          IN  /\ managerCache' = got.mcache
              /\ clientCache' = got.ccache
              /\ catalogOp' = [op |-> "GetTools", tools |-> got.tools, err |-> got.err]
    /\ UNCHANGED <<remoteTools, OutsideCatalog>>

\* Manager.RefreshTools: drops the manager's cache, then GetTools.
RefreshToolsCall ==
    /\ \E reachable \in BOOLEAN :
          LET got == ManagerGetTools(NoCache, clientCache, remoteTools, reachable)
          IN  /\ managerCache' = got.mcache
              /\ clientCache' = got.ccache
              /\ catalogOp' = [op |-> "RefreshTools", tools |-> {}, err |-> got.err]
    /\ UNCHANGED <<remoteTools, OutsideCatalog>>

CatalogNext == ServerChanges \/ GetToolsCall \/ RefreshToolsCall

(* LongTermMemory.Search over its two stores.                              *)

\* What metadataStore.Get answers for a candidate: an error, or the record.
FetchAnswers ==
    {[found |-> FALSE, SessionID |-> "", AccessCount |-> 0]}
    \cup {[found |-> TRUE, SessionID |-> s, AccessCount |-> 0] : s \in Sessions}

\* The vector index ranks the ids 1..n, best first; each id has its answer
\* in the metadata store.
SearchStores ==
    UNION {{[ranking |-> [i \in 1..n |-> i], records |-> recs] :
              recs \in [1..n -> FetchAnswers]} : n \in 0..(2 * MaxTopK)}

SearchOutcomes == {"ok", "embed_fail", "search_fail"}

SearchInputs ==
    {[stores |-> st, sessionID |-> s, topK |-> k, outcome |-> o] :
        st \in SearchStores, s \in Sessions \cup {""}, k \in 0..MaxTopK,
        o \in SearchOutcomes}

\* vectorStore.Search(ctx, queryVector, limit): the best limit candidates.
VectorSearch(ranking, limit) == SubSeq(ranking, 1, Min(limit, Len(ranking)))

\* The session filter of Search without the session test.
PassesFilterAnySession(rec, sessionID) == rec.found

\* A candidate is taken when its record is fetched and, for a non-empty
\* sessionID, belongs to that session.
PassesFilter(rec, sessionID) ==
    rec.found /\ ~(sessionID # "" /\ rec.SessionID # sessionID)

RECURSIVE SearchLoop(_, _, _, _, _)
\* The loop of Search over the candidates, with its break at topK.
SearchLoop(candidates, records, sessionID, topK, memories) ==
    IF candidates = <<>> THEN memories
    ELSE LET id  == Head(candidates)
             rec == records[id]
         IN  IF ~PassesFilter(rec, sessionID)
             THEN SearchLoop(Tail(candidates), records, sessionID, topK, memories)
             ELSE LET taken == Append(memories,
                                      [ID |-> id, SessionID |-> rec.SessionID,
                                       AccessCount |-> rec.AccessCount + 1])
                  IN  IF Len(taken) >= topK THEN taken
                      ELSE SearchLoop(Tail(candidates), records, sessionID, topK, taken)

\* LongTermMemory.Search; asked is the limit handed to the vector index.
Search(in) ==
    IF in.outcome = "embed_fail"
    THEN [memories |-> <<>>, err |-> "failed to generate query embedding", asked |-> -1]
    ELSE IF in.outcome = "search_fail"
    THEN [memories |-> <<>>, err |-> "failed to search vector store", asked |-> in.topK * 2]
    ELSE [memories |-> SearchLoop(VectorSearch(in.stores.ranking, in.topK * 2),
                                  in.stores.records, in.sessionID, in.topK, <<>>),
          err |-> NoError, asked |-> in.topK * 2]

SearchReady ==
    /\ callIn \in SearchInputs
    /\ callOut = <<>>
    /\ callPc = "query"

SearchCall ==
    /\ callPc = "query"
    /\ callOut' = Search(callIn)
    /\ callPc' = "searched"
    /\ UNCHANGED <<callIn, OutsideCall>>

(* MemoryManager.Retrieve over the three tiers.                            *)

\* math.Exp(-hours/24) in hundredths, for a memory accessed just now (what
\* Search stamps), a day ago, or never (the zero time Store leaves in
\* AccessedAt).
timeDecay(age) == IF age = "now" THEN 100 ELSE IF age = "day" THEN 36 ELSE 0

\* calculateRelevance in hundredths: 1.0 for a content equal to the query,
\* else half the time decay.
calculateRelevance(memory) ==
    IF memory.matches THEN 100 ELSE timeDecay(memory.age) \div 2

\* The sort key with the importance left out.
ScoreRelevanceOnly(memory) == calculateRelevance(memory)

\* The sort key of Retrieve: relevance * importance.
Score(memory) == calculateRelevance(memory) * memory.Importance

\* A stored memory as Retrieve's inputs describe it: the importance Store
\* was given, whether its content is the query, and the tier or tiers that
\* hold it.  Only a promoted memory is in the long-term stores.
StoredMemories ==
    {[Importance |-> imp, matches |-> hit, held |-> tier, SessionID |-> s] :
        imp \in {50, 71}, hit \in BOOLEAN, tier \in {"short", "long", "both"},
        s \in Sessions}

ReachableStored == {d \in StoredMemories : d.held # "short" => d.Importance > 70}

\* The scratchpad key of the session, when it has one.
ScratchKey == 201

\* working.GetAll as memories: a key, the session, the type, the content.
WorkingCandidates(in) ==
    IF in.working = {} THEN <<>>
    ELSE <<[ID |-> ScratchKey, SessionID |-> SharedSession, Type |-> MemoryTypeWorking,
            Importance |-> 0, matches |-> FALSE, age |-> "never"]>>

\* The ids 1..n that satisfy a test, in ascending order.
IdsWhere(n, Test(_)) == SelectSeq([i \in 1..n |-> i], Test)

\* shortTerm.Get of the session.
ShortCandidates(in) ==
    LET ids == IdsWhere(Len(in.mems), LAMBDA i :
                   in.mems[i].held \in {"short", "both"}
                   /\ in.mems[i].SessionID = SharedSession)
    IN  [k \in 1..Len(ids) |->
            [ID |-> ids[k], SessionID |-> SharedSession, Type |-> MemoryTypeShortTerm,
             Importance |-> in.mems[ids[k]].Importance,
             matches |-> in.mems[ids[k]].matches, age |-> "never"]]

\* longTerm.Search(ctx, query, sessionID, topK) over what the long-term
\* stores hold; nothing when it returns an error.
LongCandidates(in) ==
    LET ranking == IdsWhere(Len(in.mems), LAMBDA i : in.mems[i].held \in {"long", "both"})
        found   == Search([stores |-> [ranking |-> ranking,
                                       records |-> [i \in 1..Len(in.mems) |->
                                           [found |-> TRUE,
                                            SessionID |-> in.mems[i].SessionID,
                                            AccessCount |-> 0]]],
                           sessionID |-> SharedSession, topK |-> in.topK,
                           outcome |-> in.outcome])
    IN  IF found.err # NoError THEN <<>>
        ELSE [k \in 1..Len(found.memories) |->
                [ID |-> found.memories[k].ID, SessionID |-> found.memories[k].SessionID,
                 Type |-> MemoryTypeShortTerm,
                 Importance |-> in.mems[found.memories[k].ID].Importance,
                 matches |-> in.mems[found.memories[k].ID].matches, age |-> "now"]]

\* sort.Slice is not stable: among equal scores the model places a memory
\* before the equal ones or after them.
TieBreaks == {"before", "after"}

RECURSIVE InsertByScore(_, _, _)
InsertByScore(sorted, memory, tie) ==
    IF sorted = <<>> THEN <<memory>>
    ELSE IF \/ Score(memory) > Score(Head(sorted))
            \/ (Score(memory) = Score(Head(sorted)) /\ tie = "before")
         THEN <<memory>> \o sorted
         ELSE <<Head(sorted)>> \o InsertByScore(Tail(sorted), memory, tie)

RECURSIVE SortByScore(_, _)
SortByScore(memories, tie) ==
    IF memories = <<>> THEN <<>>
    ELSE LET rest == SortByScore(Tail(memories), tie)
         IN  InsertByScore(rest, Head(memories), tie)

\* MemoryManager.Retrieve
Retrieve(in, tie) ==
    LET allMemories == WorkingCandidates(in) \o ShortCandidates(in) \o LongCandidates(in)
        sorted      == SortByScore(allMemories, tie)
    IN  [memories |-> IF Len(sorted) > in.topK THEN SubSeq(sorted, 1, in.topK) ELSE sorted,
         err |-> NoError]

\* Retrieve is called on a manager that holds up to MaxStored memories and
\* at most one scratchpad key for the session.
RetrieveReady ==
    /\ \E n \in 0..MaxStored :
          \E ms \in [1..n -> ReachableStored], w \in {{}, {ScratchKey}},
             k \in 0..MaxTopK, o \in {"ok", "search_fail"} :
              callIn = [mems |-> ms, working |-> w, topK |-> k, outcome |-> o]
    /\ callOut = <<>>
    /\ callPc = "retrieve"

RetrieveFromTiers ==
    /\ callPc = "retrieve"
    /\ \E tie \in TieBreaks : callOut' = Retrieve(callIn, tie)
    /\ callPc' = "retrieved"
    /\ UNCHANGED <<callIn, OutsideCall>>

(* The tool Registry under its mutex.                                      *)

RegistryNames == {"video_analysis", "vector_search"}

RegisterCalls == 1..MaxRegisters

RegistryIdle ==
    /\ regTools = [name \in RegistryNames |-> 0]
    /\ regMu = 0
    /\ regPc = [c \in RegisterCalls |-> "idle"]
    /\ regArg = [c \in RegisterCalls |-> ""]
    /\ regRet = [c \in RegisterCalls |-> "none"]

FinalIdle == PersistIdle /\ RegistryIdle

OutsideRegistry ==
    <<intentVars, graphVars, memoryVars, contextVars, raceVars, loopVars,
      requestVars, callVars, catalogVars, persistVars>>

\* A mutex that never makes a caller wait.
MutexNeverHeld(mu) == TRUE

\* r.mu.Lock() goes through when no call holds the mutex.
MutexFree(mu) == mu = 0

\* A goroutine calls Register with a tool of some name.
RegisterBegins(c) ==
    /\ regPc[c] = "idle"
    /\ \E name \in RegistryNames : regArg' = [regArg EXCEPT ![c] = name]
    /\ regPc' = [regPc EXCEPT ![c] = "lock"]
    /\ UNCHANGED <<regTools, regMu, regRet>>

\* r.mu.Lock()
RegisterLocks(c) ==
    /\ regPc[c] = "lock"
    /\ MutexFree(regMu)
    /\ regMu' = c
    /\ regPc' = [regPc EXCEPT ![c] = "check"]
    /\ UNCHANGED <<regTools, regArg, regRet>>

\* if _, exists := r.tools[name]; exists
RegisterChecks(c) ==
    /\ regPc[c] = "check"
    /\ regPc' = [regPc EXCEPT ![c] = IF regTools[regArg[c]] # 0 THEN "reject" ELSE "write"]
    /\ UNCHANGED <<regTools, regMu, regArg, regRet>>

\* return fmt.Errorf("tool already registered"), and the deferred Unlock.
RegisterRejects(c) ==
    /\ regPc[c] = "reject"
    /\ regRet' = [regRet EXCEPT ![c] = "tool already registered"]
    /\ regMu' = IF regMu = c THEN 0 ELSE regMu
    /\ regPc' = [regPc EXCEPT ![c] = "done"]
    /\ UNCHANGED <<regTools, regArg>>

\* r.tools[name] = tool; return nil, and the deferred Unlock.
RegisterWrites(c) ==
    /\ regPc[c] = "write"
    /\ regTools' = [regTools EXCEPT ![regArg[c]] = c]
    /\ regRet' = [regRet EXCEPT ![c] = NoError]
    /\ regMu' = IF regMu = c THEN 0 ELSE regMu
    /\ regPc' = [regPc EXCEPT ![c] = "done"]
    /\ UNCHANGED regArg

RegisterBeginsStep == (\E c \in RegisterCalls : RegisterBegins(c)) /\ UNCHANGED OutsideRegistry

RegisterLocksStep == (\E c \in RegisterCalls : RegisterLocks(c)) /\ UNCHANGED OutsideRegistry

RegisterChecksStep == (\E c \in RegisterCalls : RegisterChecks(c)) /\ UNCHANGED OutsideRegistry

RegisterRejectsStep == (\E c \in RegisterCalls : RegisterRejects(c)) /\ UNCHANGED OutsideRegistry

RegisterWritesStep == (\E c \in RegisterCalls : RegisterWrites(c)) /\ UNCHANGED OutsideRegistry

RegistryNext ==
    \/ RegisterBeginsStep
    \/ RegisterLocksStep
    \/ RegisterChecksStep
    \/ RegisterRejectsStep
    \/ RegisterWritesStep

-----------------------------------------------------------------------------
(* Specifications *)

\* The context builder, the concurrent sessions and the tool loop at rest.
\* No call of a pipeline function under way.
CallIdle ==
    /\ callIn = <<>>
    /\ callOut = <<>>
    /\ callPc = "idle"

\* NewManager, before the first GetTools.
CatalogIdle ==
    /\ remoteTools = {}
    /\ clientCache = [loaded |-> FALSE, tools |-> {}]
    /\ managerCache = [loaded |-> FALSE, tools |-> {}]
    /\ catalogOp = [op |-> "none", tools |-> {}, err |-> NoError]

LaterIdle == RequestIdle /\ CallIdle /\ CatalogIdle /\ FinalIdle

RestIdle == ContextIdle /\ RaceIdle /\ LoopIdle /\ LaterIdle

Init == IntentIdle /\ GraphIdle /\ MemoryIdle /\ RestIdle

InitTiers == IntentIdle /\ GraphIdle /\ TiersIdle /\ RestIdle

SpecShortTerm == InitTiers /\ [][ShortTermNext]_vars

SpecWorking == InitTiers /\ [][WorkingNext]_vars

InitContext ==
    IntentIdle /\ GraphIdle /\ MemoryIdle /\ ContextNew /\ RaceIdle /\ LoopIdle /\ LaterIdle

SpecContext == InitContext /\ [][ContextNext]_vars

InitRace == IntentIdle /\ GraphIdle /\ RaceTiers /\ RestIdle

SpecRace == InitRace /\ [][RaceNext]_vars

SpecLoop == Init /\ [][LoopNext]_vars

SpecRequest == Init /\ [][RequestNext]_vars

InitExtract ==
    /\ IntentIdle /\ GraphIdle /\ MemoryIdle /\ ContextIdle /\ RaceIdle /\ LoopIdle
    /\ RequestIdle /\ CatalogIdle /\ FinalIdle
    /\ (ExtractReady \/ CoerceReady)

SpecExtract == InitExtract /\ [][ExtractNext]_vars

InitParse ==
    /\ IntentIdle /\ GraphIdle /\ MemoryIdle /\ ContextIdle /\ RaceIdle /\ LoopIdle
    /\ RequestIdle /\ CatalogIdle /\ FinalIdle /\ ParseReady

SpecParse == InitParse /\ [][ParseCall]_vars

InitCatalog ==
    /\ IntentIdle /\ GraphIdle /\ MemoryIdle /\ ContextIdle /\ RaceIdle /\ LoopIdle
    /\ RequestIdle /\ CallIdle /\ CatalogNew /\ FinalIdle

SpecCatalog == InitCatalog /\ [][CatalogNext]_vars

InitSearch ==
    /\ IntentIdle /\ GraphIdle /\ MemoryIdle /\ ContextIdle /\ RaceIdle /\ LoopIdle
    /\ RequestIdle /\ CatalogIdle /\ FinalIdle /\ SearchReady

SpecSearch == InitSearch /\ [][SearchCall]_vars

InitRetrieve ==
    /\ IntentIdle /\ GraphIdle /\ MemoryIdle /\ ContextIdle /\ RaceIdle /\ LoopIdle
    /\ RequestIdle /\ CatalogIdle /\ FinalIdle /\ RetrieveReady

SpecRetrieve == InitRetrieve /\ [][RetrieveFromTiers]_vars

InitPersist ==
    /\ IntentIdle /\ GraphIdle /\ MemoryIdle /\ ContextIdle /\ RaceIdle /\ LoopIdle
    /\ RequestIdle /\ CallIdle /\ CatalogIdle /\ PersistAny /\ RegistryIdle

SpecPersist == InitPersist /\ [][GraphNext]_vars

SpecRegistry == Init /\ [][RegistryNext]_vars

InitManager == IntentIdle /\ GraphIdle /\ ManagerIdle /\ RestIdle

SpecManager == InitManager /\ [][ManagerNext]_vars

SpecIntent == Init /\ [][IntentNext]_vars

SpecGraph == Init /\ [][GraphNext]_vars

SpecMemory == Init /\ [][MemoryNext]_vars

\* The graph engine runs a node whenever one is ready.
FairSpecGraph == SpecGraph /\ WF_vars(GraphNext)

-----------------------------------------------------------------------------
(* Properties of the tool-execution and tool-selection stages *)

Ran(node) == \E i \in 1..Len(visited) : visited[i] = node

\* C1: toolExecutionNode run on n >= 1 selections returns exactly n
\* results, result i carrying the name and parameters of selection i; a
\* result has its Error set exactly when its own invocation failed, a
\* failed invocation keeps its entry, and ExecuteTool is called once for
\* every selection, in order, whatever failed before it.
C1_OneResultPerSelection ==
    (Ran("tool_execution") /\ Len(state.SelectedTools) >= 1) =>
        /\ Len(state.ToolResults) = Len(state.SelectedTools)
        /\ Len(invokeLog) = Len(state.SelectedTools)
        /\ \A i \in 1..Len(state.SelectedTools) :
              /\ state.ToolResults[i].ToolName = state.SelectedTools[i].Name
              /\ state.ToolResults[i].Params = state.SelectedTools[i].Params
              /\ invokeLog[i] = state.SelectedTools[i].Name
              /\ (state.ToolResults[i].Error # "") <=> ~ext.tools[i]
              /\ ext.tools[i] => state.ToolResults[i].Result # <<>>

C1_Witness ==
    /\ Ran("tool_execution")
    /\ Len(state.SelectedTools) = 2
    /\ Len(state.ToolResults) = 2
    /\ state.ToolResults[1].Error # ""
    /\ state.ToolResults[2].Error = ""

SelectionFailed ==
    \/ ext.catalog = "error"
    \/ ext.selection \in {"error", "nojson", "badjson"}

\* C2: when the tool catalog cannot be fetched, or the selection model
\* call fails, or its answer cannot be parsed, the selection stage hands
\* the state on (the run is at a later node, Execute reports no error)
\* with an empty selection list and the error recorded in the metadata;
\* the run then ends with a reply, no tool having been invoked.
C2_SelectionFailureDegrades ==
    SelectionFailed =>
        /\ Ran("tool_selection")
        /\ pc \in {"tool_execution", "analysis", "summary", "END"}
        /\ state.SelectedTools = <<>>
        /\ state.Metadata.tool_selection_error # ""
        /\ invokeLog = <<>>
        /\ state.ToolResults = <<>>
        /\ Ran("tool_execution") => state.Metadata.tool_execution_skipped
        /\ pc = "END" => /\ execErr = NoError
                         /\ output.Reply.kind \in
                               {"llm", "fallback_analysis", "fallback_response"}

C2_Witness ==
    /\ pc = "END"
    /\ ext.selection = "badjson"
    /\ state.Metadata.tool_selection_error # ""
    /\ execErr = NoError
    /\ output.Reply.kind = "llm"

-----------------------------------------------------------------------------
(* Properties of synthesis and general chat *)

SynthesisFailed == ext.synthesis = "error" \/ ext.agent = "error"

GeneralChatTurn ==
    \/ variant = "linear" /\ state.Intent = IntentGeneralChat
    \/ variant = "router" /\ Ran("general")

-----------------------------------------------------------------------------
(* Properties of the graph as a whole *)

\* C5: in every completed run, on every branch and whatever calls failed,
\* memoryManager.Store is called exactly twice: for the user message and,
\* after it, for the assistant reply.
C5_TwoStoresPerRun ==
    pc = "END" =>
        /\ Len(storeLog) = 2
        /\ storeLog[1].Type = "user"
        /\ storeLog[2].Type = "assistant"

NoRepeat(seq) == \A i, j \in 1..Len(seq) : seq[i] = seq[j] => i = j

OutputNodes == {"summary", "knowledge", "creation", "video", "general"}

StageOrderOK ==
    /\ visited # <<>> => visited[1] = "intent"
    /\ NoRepeat(visited)
    /\ pc = "END" => /\ visited # <<>>
                     /\ visited[Len(visited)] \in OutputNodes
                     /\ execErr = NoError
    /\ \A i \in 1..(Len(visited) - 1) : visited[i] \notin OutputNodes

-----------------------------------------------------------------------------
(* Properties of Recognize *)

ModelFailed == response.kind \in {"error", "unparsable"}

\* C7: Recognize never returns an error, and whenever the model call fails
\* or its answer is not parsable the intent returned is the rule-based
\* classifier's result for the utterance.
C7_FallbackIsRuleBased ==
    rpc = "done" =>
        /\ recognized.err = NoError
        /\ ModelFailed => recognized.intent = ruleBasedClassify(query)

C7_Witness ==
    /\ rpc = "done"
    /\ response.kind = "unparsable"
    /\ Contains(query, {"V"})
    /\ recognized.intent.Type = IntentVideoAnalysis
    /\ recognized.intent.Confidence = 80

\* C8: for a parsed answer with confidence below 0.7 that the rule-based
\* result beats strictly, Recognize returns the rule-based type; for every
\* other parsed answer it returns the model's type.
C8_LowConfidenceTakesHigher ==
    (rpc = "done" /\ response.kind = "json") =>
        LET rule == ruleBasedClassify(query)
        IN  recognized.intent.Type =
                IF response.conf < 70 /\ rule.Confidence > response.conf
                THEN rule.Type
                ELSE response.type

C8_Witness ==
    /\ rpc = "done"
    /\ response.kind = "json"
    /\ response.conf = 69
    /\ response.type = IntentGeneralChat
    /\ Contains(query, {"K"})
    /\ recognized.intent.Type = IntentKnowledgeQA

-----------------------------------------------------------------------------
(* Properties of MemoryManager.Store *)

InLongTerm(id) == id \in vectorStore /\ \E m \in metadataStore : m.ID = id

InShortTerm(memory) ==
    \E i \in 1..Len(shortTerm[memory.SessionID]) :
        shortTerm[memory.SessionID][i].ID = memory.ID

\* The Store calls that returned no error for a memory that is not of
\* type working.
StoredPlain == {i \in 1..Len(history) :
                  history[i].err = NoError /\ history[i].memory.Type # MemoryTypeWorking}

NoLowImportanceInLongTerm ==
    /\ \A m \in metadataStore : m.Importance > 70
    /\ \A i \in 1..Len(history) :
          history[i].memory.Importance <= 70 => history[i].memory.ID \notin vectorStore

\* C9 as claimed: after any sequence of Store calls every stored
\* non-working memory with importance > 0.7 is in the LongTerm store as
\* well as in ShortTerm, and no memory with importance <= 0.7 is in LongTerm.
C9_PromotedInBothTiers ==
    /\ \A i \in StoredPlain :
          history[i].memory.Importance > 70 =>
              InLongTerm(history[i].memory.ID) /\ InShortTerm(history[i].memory)
    /\ NoLowImportanceInLongTerm

\* Later non-working Store calls for the same session as call i.
LaterInSession(i) ==
    {j \in (i + 1)..Len(history) :
        /\ history[j].memory.SessionID = history[i].memory.SessionID
        /\ history[j].memory.Type # MemoryTypeWorking}

\* The Store calls for a memory that is not of type working.
Plain == {i \in 1..Len(history) : history[i].memory.Type # MemoryTypeWorking}

\* C9 as amended: after any sequence of Store calls every non-working
\* memory with importance > 0.7 is in the LongTerm store exactly when its
\* Store returned no error (a failed long-term write leaves it in
\* ShortTerm only); it is in its session's ShortTerm list exactly while
\* fewer than maxItems later non-working memories of that session have
\* been stored; no memory with importance <= 0.7 is in LongTerm.
C9_PromotedInLongTerm ==
    /\ \A i \in Plain :
          history[i].memory.Importance > 70 =>
              /\ InLongTerm(history[i].memory.ID) <=> history[i].err = NoError
              /\ InShortTerm(history[i].memory) <=> Cardinality(LaterInSession(i)) < maxItems
    /\ NoLowImportanceInLongTerm

C9_Witness ==
    /\ Len(history) = 3
    /\ history[1].memory.Importance = 71 /\ history[1].err = NoError
    /\ history[1].memory.Type = MemoryTypeShortTerm
    /\ history[2].memory.Importance = 70 /\ history[2].memory.Type = MemoryTypeShortTerm
    /\ history[2].memory.SessionID = history[1].memory.SessionID
    /\ history[3].memory.Importance = 69 /\ history[3].memory.Type = MemoryTypeShortTerm
    /\ InLongTerm(history[1].memory.ID)
    /\ ~InLongTerm(history[2].memory.ID)
    /\ ~InLongTerm(history[3].memory.ID)

\* C10: a Store of a memory of type working changes neither the ShortTerm
\* store nor the LongTerm stores, whatever its importance; it returns no
\* error and writes only the scratchpad of the memory's own session.
C10_WorkingOnlyScratchpad ==
    [][(Len(history') = Len(history) + 1
        /\ history'[Len(history')].memory.Type = MemoryTypeWorking) =>
           /\ shortTerm' = shortTerm
           /\ vectorStore' = vectorStore
           /\ metadataStore' = metadataStore
           /\ history'[Len(history')].err = NoError
           /\ \A s \in Sessions :
                 s # history'[Len(history')].memory.SessionID => working'[s] = working[s]]_vars

C10_Witness ==
    /\ Len(history) = 2
    /\ history[1].memory.Type = MemoryTypeShortTerm
    /\ history[2].memory.Type = MemoryTypeWorking
    /\ history[2].memory.Importance = 71
    /\ <<history[2].memory.ID, "c">> \in working[history[2].memory.SessionID]
    /\ Len(shortTerm[history[1].memory.SessionID]) = 1
    /\ ~InLongTerm(history[2].memory.ID)

-----------------------------------------------------------------------------
(* Properties of the ShortTerm and Working tiers *)

LastN(seq, n) == IF Len(seq) > n THEN SubSeq(seq, Len(seq) - n + 1, Len(seq)) ELSE seq

\* No memory set for the session has reached the TTL yet, so no Get has
\* dropped anything.
NoneExpired(s) == \A i \in 1..Len(setLog[s]) : now - setLog[s][i].CreatedAt < TTL

\* C11: a session's short-term list never holds more than maxItems
\* entries, and as long as only Set has changed it (nothing has expired)
\* it is exactly the most recent min(count, maxItems) memories set for the
\* session, in insertion order.
C11_ShortTermKeepsMostRecent ==
    \A s \in Sessions :
        /\ Len(shortTerm[s]) <= maxItems
        /\ NoneExpired(s) => shortTerm[s] = LastN(setLog[s], maxItems)

C11_Witness ==
    /\ maxItems = 2
    /\ Len(setLog["s1"]) = 3
    /\ NoneExpired("s1")
    /\ shortTerm["s1"] = <<setLog["s1"][2], setLog["s1"][3]>>

\* C12: a Get returns exactly the entries of the session's list whose age
\* does not exceed the TTL, an entry aged exactly TTL included, and the
\* list written back equals the list returned.
C12_GetKeepsEntriesAgedTTL ==
    lastOp.op = "Get" =>
        /\ lastOp.result = SelectSeq(lastOp.before, LAMBDA mem : now - mem.CreatedAt <= TTL)
        /\ shortTerm[lastOp.session] = lastOp.result

\* C13: a session's scratchpad never holds more than maxSize keys: it
\* holds min(distinct keys set, maxSize) of them, so with maxSize = 2 three
\* distinct keys leave exactly 2.
C13_WorkingBounded ==
    \A s \in Sessions :
        Cardinality(working[s]) = Min(Cardinality(keyLog[s]), maxSize)

C13_Witness ==
    /\ maxSize = 2
    /\ keyLog["s1"] = WorkingKeys
    /\ Cardinality(working["s1"]) = 2
    /\ lastOp.op = "WorkingSet"

-----------------------------------------------------------------------------
(* Properties of Compress, overflow and ClearSession *)

Evicted == {i \in Plain : ~InShortTerm(history[i].memory)}

\* C15: no memory leaves a short-term list by overflow unless a
\* compressed summary of its session has been written to long-term.
C15_OverflowTriggersCompression ==
    \A i \in Evicted :
        \E m \in metadataStore :
            /\ m.Type = MemoryTypeCompressed
            /\ m.SessionID = history[i].memory.SessionID

IDs(store) == {m.ID : m \in store}

\* C16: no step of Store, Retrieve, Compress or ClearSession removes an
\* id from the long-term vector store or the long-term metadata store; a
\* ClearSession(s) step leaves session s with an empty short-term list and
\* an empty scratchpad and changes neither the long-term stores nor any
\* other session's short-term list or scratchpad.
C16_LongTermDurable ==
    [][/\ vectorStore \subseteq vectorStore'
       /\ IDs(metadataStore) \subseteq IDs(metadataStore')
       /\ lastOp'.op = "ClearSession" =>
             /\ shortTerm'[lastOp'.session] = <<>>
             /\ working'[lastOp'.session] = {}
             /\ vectorStore' = vectorStore
             /\ metadataStore' = metadataStore
             /\ \A o \in Sessions \ {lastOp'.session} :
                   shortTerm'[o] = shortTerm[o] /\ working'[o] = working[o]]_vars

C16_Witness ==
    /\ lastOp.op = "ClearSession"
    /\ lastOp.session = "s1"
    /\ Len(lastOp.before) >= CompressThreshold
    /\ shortTerm["s1"] = <<>>
    /\ shortTerm["s2"] # <<>>
    /\ working["s2"] # {}
    /\ \E m \in metadataStore : m.SessionID = "s1" /\ m.Type = MemoryTypeCompressed
    /\ \E m \in metadataStore : m.SessionID = "s2"

-----------------------------------------------------------------------------
(* Properties of the ContextBuilder *)

C18_WithinBudget ==
    /\ SumTokens(messages) <= maxTokens
    /\ lastAdd.n > 0 =>
          /\ ~lastAdd.ok <=> SumTokens(lastAdd.squeezed) + lastAdd.tokens > maxTokens
          /\ ~lastAdd.ok => messages = lastAdd.squeezed

-----------------------------------------------------------------------------
(* Properties of concurrent requests on one session *)

\* The ids held by the shared session's short-term list.
Held == {gstore[SharedSession][i].ID : i \in 1..Len(gstore[SharedSession])}

\* C19: under every interleaving of concurrent Set and Get calls on one
\* session, every memory whose Set has returned is in the session's list
\* once the calls are over (the list has room for all of them), and the
\* list a Get is about to write back holds every memory whose Set has
\* returned.
C19_NoLostUpdate ==
    /\ (\A g \in Goroutines : gpc[g] = "idle") => gdone \subseteq Held
    /\ \A g \in Goroutines :
          (gpc[g] = "write" /\ gop[g].op = "Get") =>
              gdone \subseteq {glocal[g][i].ID : i \in 1..Len(glocal[g])}

-----------------------------------------------------------------------------
(* Properties of the tool loop under the request context *)

\* C20: a tool that never answers is given up after a per-call timeout:
\* its result is recorded, with an error, before the request deadline,
\* and every tool invoked after it is invoked while the request context is
\* still alive.
C20_HungToolBoundedPerCall ==
    \A i \in 1..Len(tresults) :
        tselected[i] = "hangs" =>
            /\ tresults[i].err # NoError
            /\ tresults[i].end < RequestDeadline
            /\ \A j \in 1..Len(tcalls) : j > i => tcalls[j].start < RequestDeadline

-----------------------------------------------------------------------------
(* Properties of the request on the clock *)

\* C21: every external call runs under a stage timeout shorter than the
\* request deadline: no call lasts until the request context expires, and
\* the request is over before the request deadline.
C21_StagesEndBeforeDeadline ==
    /\ \A i \in 1..Len(qlog) : qlog[i].outcome # "request_deadline"
    /\ qpc = "done" => qclock < RequestDeadlineTicks

\* C22: once the caller's context is cancelled, a call in flight is
\* aborted: it does not go on waiting.
C22_CancellationAborts ==
    [][(qparent = "cancelled" /\ qflight) => qclock' = qclock]_vars

-----------------------------------------------------------------------------
(* Properties of the extraction of video data *)

\* The last tool result extraction was given.
LastResult == callIn[Len(callIn)].Result

\* C23: when the last tool result is the wrapped envelope, a content array
\* whose first element's text is the base64 of the JSON
\* {data:{video:{view_count:N}}}, extraction returns view_count = N, an
\* integer, for every N of the range, whatever the results before it.
C23_WrappedViewCount ==
    (callPc = "returned" /\ callIn # <<>>) =>
        \A n \in Counts : \A video \in {FullVideo(n), ViewOnly(n)} :
            LastResult = Wrapped(DataVideoDoc(video)) =>
                callOut.view_count \in Int /\ callOut.view_count = n

C23_Witness ==
    /\ callPc = "returned"
    /\ Len(callIn) = 2
    /\ LastResult = Wrapped(DataVideoDoc(ViewOnly(12345)))
    /\ callOut.view_count = 12345

\* The six canonical values of a full video object.
FullVideoData(n) ==
    [view_count |-> n, like_count |-> n + 1, comment_count |-> n + 2,
     title |-> PlainText("t"), description |-> PlainText("d"),
     author |-> PlainText("u")]

\* C24: the canonical fields are taken from data.video, otherwise from a
\* top-level video object, otherwise from the top-level fields; in each of
\* the three shapes every field the payload has is returned with its value.
C24_ThreeShapes ==
    (callPc = "returned" /\ Len(callIn) = 1) =>
        \A n \in Counts :
            LastResult \in {PlainResult(DataVideoDoc(FullVideo(n))),
                            PlainResult(TopVideoDoc(FullVideo(n))),
                            PlainResult(FlatDoc(FullVideo(n)))}
                => callOut = FullVideoData(n)

\* Results in which extraction finds no field: nil, unparsable, invalid
\* base64, an envelope without text, and payloads without a field.
EmptyDocs ==
    {JNull, JArr(<<>>), JObj(One("data", JObj(<<>>))),
     DataVideoDoc(JObj(<<>>)), TopVideoDoc(JObj(<<>>)),
     DataVideoDoc(JObj([view_count |-> JNull, title |-> JNull]))}

Silent(res) ==
    \/ res \in BrokenResults
    \/ \E d \in EmptyDocs : res \in {PlainResult(d), Wrapped(d)}

\* C25: for every list of tool results extraction returns a map with all
\* six canonical fields, the counts integers; when no result has a field
\* every count is 0 and every text is empty, and when the only result with
\* fields has a view count alone the five other fields keep these defaults.
C25_SixFieldsWithDefaults ==
    callPc = "returned" =>
        /\ DOMAIN callOut =
              {"view_count", "like_count", "comment_count", "title", "description", "author"}
        /\ \A f \in {"view_count", "like_count", "comment_count"} : callOut[f] \in Int
        /\ (\A i \in 1..Len(callIn) : Silent(callIn[i].Result)) =>
              /\ \A f \in {"view_count", "like_count", "comment_count"} : callOut[f] = 0
              /\ \A f \in {"title", "description", "author"} : callOut[f] = PlainText("")
        /\ ( /\ callIn # <<>>
             /\ \A i \in 1..(Len(callIn) - 1) : Silent(callIn[i].Result)
             /\ LastResult \in {PlainResult(DataVideoDoc(ViewOnly(12345))),
                                 Wrapped(TopVideoDoc(ViewOnly(12345)))} ) =>
              callOut = [ZeroVideoData EXCEPT !.view_count = 12345]

C25_Witness ==
    /\ callPc = "returned"
    /\ Len(callIn) = 2
    /\ callIn[1].Result = GoNil /\ callIn[1].Error # NoError
    /\ LastResult = PlainResult(DataVideoDoc(JObj([view_count |-> JNull, title |-> JNull])))
    /\ callOut = ZeroVideoData

\* The integer a representation carries: an integer of any width, a float
\* with an integral value, a decimal string.
Carried(val) ==
    IF val.t \in IntKinds THEN val.v
    ELSE IF val.t = "string" THEN DecimalValue(val.v)
    ELSE val.v \div 10

Accepted(val) ==
    \/ val.t \in IntKinds
    \/ val.t \in {"float32", "float64"} /\ val.v % 10 = 0
    \/ val.t = "string" /\ val.v \in DecimalStrings

\* C26: the coerced count equals the integer the value carries, for an
\* integer of every signed and unsigned width, a float with an integral
\* value, and a decimal string.
C26_CoercionKeepsValue ==
    (callPc = "coerced" /\ Accepted(callIn)) => callOut = Carried(callIn)

-----------------------------------------------------------------------------
(* Properties of the selection stage and the tool catalog *)

\* C27: every selection the selection stage returns names a tool of the
\* catalog; a selection naming an absent tool has been dropped.
C27_SelectionsInCatalog ==
    \A i \in 1..Len(state.SelectedTools) : state.SelectedTools[i].Name \in Catalog

\* The placeholder keys of a params object.
HoleKeys(params) == {kv \in params : kv[1] \in {ParamValueHole, ParamNameHole}}

\* C28: when a selection of the model's answer holds its identifier under a
\* placeholder key of the prompt template, the returned selection holds
\* that identifier under video_id and has no placeholder key left.
C28_PlaceholderKeysRemapped ==
    (callPc = "parsed" /\ callIn.kind = "json") =>
        \A i \in 1..Len(callIn.tools) :
            \A kv \in HoleKeys(callIn.tools[i].Params) :
                Cardinality(HoleKeys(callIn.tools[i].Params)) = 1 =>
                    /\ <<ParamVideoID, kv[2]>> \in callOut.tools[i].Params
                    /\ HoleKeys(callOut.tools[i].Params) = {}

\* C29: the GetTools that follows a RefreshTools which returned no error
\* returns the list the server publishes now.
C29_RefreshReturnsCurrentList ==
    [][(catalogOp.op = "RefreshTools" /\ catalogOp.err = NoError
            /\ catalogOp'.op = "GetTools")
        => (catalogOp'.err = NoError /\ catalogOp'.tools = remoteTools')]_vars

-----------------------------------------------------------------------------
(* Properties of LongTermMemory.Search *)

\* The candidates the vector index hands back for topK * 2, best first.
Ranked == VectorSearch(callIn.stores.ranking, callIn.topK * 2)

\* The ranked candidates Search may return: fetched, and of the session
\* asked for when one is asked for.
Fetched ==
    SelectSeq(Ranked, LAMBDA id :
        /\ callIn.stores.records[id].found
        /\ callIn.sessionID # "" => callIn.stores.records[id].SessionID = callIn.sessionID)

\* C30: Search asks the vector index for topK*2 candidates and returns at
\* most topK memories: the first topK, in rank order, of the candidates
\* whose record is fetched and which belong to session s when s is not
\* empty; a candidate whose record cannot be fetched is skipped.
C30_SearchTopKOfSession ==
    (callPc = "searched" /\ callOut.err = NoError) =>
        /\ callOut.asked = callIn.topK * 2
        /\ Len(callOut.memories) <= callIn.topK
        /\ Len(callOut.memories) = Min(callIn.topK, Len(Fetched))
        /\ \A i \in 1..Len(callOut.memories) :
              /\ callOut.memories[i].ID = Fetched[i]
              /\ callIn.stores.records[callOut.memories[i].ID].found
              /\ callIn.sessionID # "" => callOut.memories[i].SessionID = callIn.sessionID

C30_Witness ==
    /\ callPc = "searched"
    /\ callIn.topK = 2 /\ callIn.sessionID = "s1"
    /\ Len(callIn.stores.ranking) = 4
    /\ ~callIn.stores.records[1].found
    /\ callIn.stores.records[2].SessionID = "s2"
    /\ Len(callOut.memories) = 2
    /\ callOut.memories[1].ID = 3 /\ callOut.memories[2].ID = 4

-----------------------------------------------------------------------------
(* Properties of MemoryManager.Retrieve *)

\* The candidates of the session: its scratchpad keys, its short-term list
\* and, when the search succeeds, its long-term memories.
CandidateIDs ==
    callIn.working
    \cup {i \in 1..Len(callIn.mems) :
            /\ callIn.mems[i].SessionID = SharedSession
            /\ \/ callIn.mems[i].held \in {"short", "both"}
               \/ callIn.mems[i].held = "long" /\ callIn.outcome = "ok"}

\* C31: Retrieve returns no error and at most topK memories, each a
\* Working, ShortTerm or LongTerm candidate of the session, in order of
\* non-increasing relevance * importance; when the long-term search fails
\* the result holds no memory that only the long-term stores have.
C31_RetrieveTopKByScore ==
    callPc = "retrieved" =>
        /\ callOut.err = NoError
        /\ Len(callOut.memories) <= callIn.topK
        /\ \A i \in 1..Len(callOut.memories) :
              /\ callOut.memories[i].ID \in CandidateIDs
              /\ callOut.memories[i].SessionID = SharedSession
        /\ \A i \in 1..(Len(callOut.memories) - 1) :
              calculateRelevance(callOut.memories[i]) * callOut.memories[i].Importance
                >= calculateRelevance(callOut.memories[i + 1])
                     * callOut.memories[i + 1].Importance

C31_Witness ==
    /\ callPc = "retrieved"
    /\ callIn.outcome = "search_fail"
    /\ callIn.topK = 2
    /\ Len(callIn.mems) = 2
    /\ callIn.mems[1].held = "long" /\ callIn.mems[1].SessionID = SharedSession
    /\ callIn.mems[2].held = "short" /\ callIn.mems[2].SessionID = SharedSession
    /\ callIn.working = {ScratchKey}
    /\ Len(callOut.memories) = 2
    /\ callOut.memories[1].ID = 2

\* C37: Retrieve returns no memory id twice.
C37_NoDuplicateIDs ==
    callPc = "retrieved" =>
        \A i, j \in 1..Len(callOut.memories) :
            callOut.memories[i].ID = callOut.memories[j].ID => i = j

-----------------------------------------------------------------------------
(* Properties of routing and of memory persistence in the pipeline *)

\* The intent types the stages of each graph have a case for.
MappedIntents ==
    IF variant = "router"
    THEN {IntentKnowledgeBase, IntentKnowledgeQA, IntentContentCreation,
          IntentTopicAnalysis, IntentVideoAnalysis}
    ELSE {IntentVideoAnalysis, IntentContentCreation, IntentWeeklyReport,
          IntentTopicAnalysis}

\* The intent type the run was routed on.
RoutedIntent ==
    IF variant = "router" THEN extractIntentFromSessionID(input.SessionID)
    ELSE <<state.Intent>>

\* C32: routing never fails, and a run whose intent type is not mapped to a
\* branch is handled as general chat: the catalog is not read, no tool is
\* selected, no tool is executed, and the general-chat agent answers.
C32_UnmappedIsGeneralChat ==
    pc = "END" =>
        /\ execErr = NoError
        /\ (\A t \in MappedIntents : RoutedIntent # <<t>>) =>
              /\ ext.catalog = "none"
              /\ ext.selection = "none"
              /\ invokeLog = <<>>
              /\ output.Agent = "general_chat"

\* C33: whether the Store of the user message and the Store of the
\* assistant reply succeed or fail, Execute returns no error and the reply
\* the last stage built; both Store calls have been made.
C33_StoreFailureKeepsReply ==
    pc = "END" =>
        /\ execErr = NoError
        /\ variant = "linear" =>
              /\ Len(storeLog) = 2
              /\ \E a \in TextAnswers :
                    /\ state.Intent = IntentGeneralChat => a.kind = ext.chat
                    /\ output.Reply = summaryReply(state, a)
              /\ output.Reply = storeLog[2].Content

C33_Witness ==
    /\ pc = "END"
    /\ variant = "linear"
    /\ storeOutcomes = [i \in 1..2 |-> "error"]
    /\ state.Intent = IntentVideoAnalysis
    /\ output.Reply = state.AnalysisResult
    /\ execErr = NoError

-----------------------------------------------------------------------------
(* Properties of the tool Registry *)

\* The Register calls for a name that have returned, and those of them
\* that returned no error.
Returned(name) == {c \in RegisterCalls : regPc[c] = "done" /\ regArg[c] = name}

Succeeded(name) == {c \in Returned(name) : regRet[c] = NoError}

\* C40: of the Register calls for one name, however they interleave, at
\* most one returns no error, exactly one once a call for the name has
\* returned, and the registry holds that call's tool; a Register of a name
\* already present returns an error, and no step replaces or removes a
\* tool the registry holds.
C40_OneToolPerName ==
    /\ [](\A name \in RegistryNames :
            /\ Cardinality(Succeeded(name)) <= 1
            /\ Returned(name) # {} => Cardinality(Succeeded(name)) = 1
            /\ \A c \in Succeeded(name) : regTools[name] = c
            /\ \A c \in Returned(name) \ Succeeded(name) :
                  regRet[c] = "tool already registered")
    /\ [][\A name \in RegistryNames :
            regTools[name] # 0 => regTools'[name] = regTools[name]]_vars

C40_Witness ==
    /\ \A c \in RegisterCalls : regPc[c] = "done" /\ regArg[c] = "video_analysis"
    /\ regTools["video_analysis"] = 2
    /\ regRet[2] = NoError
    /\ regRet[1] = "tool already registered"
    /\ regRet[3] = "tool already registered"
    /\ regTools["vector_search"] = 0

-----------------------------------------------------------------------------
(* Properties of the Working store's eviction and of Store's failures *)

C35_StoreNotAtomic ==
    [][(Len(history') = Len(history) + 1 /\ history'[Len(history')].err # NoError) =>
        LET memory == history'[Len(history')].memory
            err    == history'[Len(history')].err
            list   == shortTerm'[memory.SessionID]
        IN  /\ ~IsWorking(memory)
            /\ memory.Importance > 70
            /\ Len(list) > 0
            /\ list[Len(list)] = memory
            /\ metadataStore' = metadataStore
            /\ IF err = "failed to save metadata"
               THEN /\ memory.ID \in vectorStore'
                    /\ memory.ID \notin vectorStore
               ELSE vectorStore' = vectorStore]_vars

C35_Witness ==
    /\ Len(history) > 0
    /\ LET memory == history[Len(history)].memory
           list   == shortTerm[memory.SessionID]
       IN  /\ history[Len(history)].err = "failed to save metadata"
           /\ Len(list) > 0
           /\ list[Len(list)] = memory
           /\ memory.ID \in vectorStore
           /\ \A m \in metadataStore : m.ID # memory.ID


\* The list a builder holds when compress has nothing new to say about it:
\* a summary of one message followed by three messages.
SummaryOfOne(msgs) ==
    /\ Len(msgs) = keepCount + 1
    /\ msgs[1] = [Role |-> "system",
                  Content |-> Text(<<"history_summary", <<"earlier_messages", 1>>>>,
                                   SummaryPrefixBytes + SummaryFrameBytes + 1),
                  Tokens |-> estimateTokens(Text(<<"earlier_messages", 1>>,
                                                 SummaryFrameBytes + 1))]

\* C36: an AddMessage that returns false never appends its message: the
\* list it leaves is the list compress left.  With at most 3 messages held
\* that is the list as it was; with more than 3 it is one summary of the
\* older messages followed by the 3 most recent, which differs from the list
\* as it was except when that list already was a summary of one message
\* followed by 3 messages.
C36_RejectedAddSummarises ==
    (lastAdd.n > 0 /\ ~lastAdd.ok) =>
        LET before == lastAdd.before
        IN  /\ lastAdd.compressed
            /\ messages = lastAdd.squeezed
            /\ Len(before) <= keepCount => messages = before
            /\ Len(before) > keepCount =>
                  /\ Len(messages) = keepCount + 1
                  /\ messages[1].Role = "system"
                  /\ messages[1].Content.text =
                        <<"history_summary", <<"earlier_messages", Len(before) - keepCount>>>>
                  /\ SubSeq(messages, 2, keepCount + 1) =
                        SubSeq(before, Len(before) - keepCount + 1, Len(before))
                  /\ (messages = before) <=> SummaryOfOne(before)

C36_Witness ==
    /\ lastAdd.n > 0
    /\ ~lastAdd.ok
    /\ Len(lastAdd.before) > keepCount + 1
    /\ messages # lastAdd.before

\* C36 as stated: a rejected AddMessage leaves the list unchanged only when
\* the builder holds at most 3 messages.
C36_RejectedAddChangesLongList ==
    (lastAdd.n > 0 /\ ~lastAdd.ok) =>
        /\ messages = lastAdd.squeezed
        /\ (messages = lastAdd.before) <=> Len(lastAdd.before) <= keepCount


-----------------------------------------------------------------------------
(* Properties of the values carried between the router graph's stages *)

\* The user message of the run, as the intent node stored it.
OriginalMessage == storeLog[1].Content.msg

\* C38: for every user message, one containing the separator included, the
\* router node leaves in Message exactly the user message the intent node
\* received and recovers exactly the intent type the intent node wrote in
\* front of it, which it appends to the session id.
C38_RouterRecoversIntentAndMessage ==
    [][(variant = "router" /\ pc = "router" /\ pc' # "router") =>
        /\ input'.Message = OriginalMessage
        /\ input'.SessionID = input.SessionID \o <<"#", input.Message[2]>>]_vars


\* C39: in every run the user memory is stored under the session id of
\* the request as Execute passed it on (the request's own id, or the one
\* generated when it has none), and at the end of the run every memory
\* stored, the assistant memory included, and the output carry that same
\* session id.
C39_OneSessionID ==
    /\ [](pc = "END" =>
            /\ storeLog # <<>>
            /\ storeLog[1].Type = "user"
            /\ \A i \in 1..Len(storeLog) : storeLog[i].SessionID = storeLog[1].SessionID
            /\ output.SessionID = storeLog[1].SessionID)
    /\ [][(pc = "intent" /\ pc' # "intent") =>
            /\ Len(storeLog') = 1
            /\ storeLog'[1].SessionID = input.SessionID
            /\ input.SessionID \in {<<"s">>, NewUUID}]_vars

====
